---- MODULE Spec2Model ----
(***************************************************************************)
(* A model of the statement ingestion and categorization pipeline of the   *)
(* Personal-Finances-Tracker: the rule engine and merchant hints of        *)
(* lib/categorizer, the statement parsers of lib/parser and the Convex     *)
(* mutations that store categories.                                        *)
(*                                                                         *)
(* Text is a TLA+ string, read character by character.  Money is an        *)
(* integer number of hundredths (paise); rule scores are integer tenths    *)
(* (the code's 0.7 and 1.2 steps); time is an integer number of days.      *)
(***************************************************************************)
EXTENDS Integers, Sequences, FiniteSets, TLC

(***************************************************************************)
(* Strings                                                                 *)
(***************************************************************************)
CharAt(s, i) == SubSeq(s, i, i)

LowerAlphabet == "abcdefghijklmnopqrstuvwxyz"
UpperAlphabet == "ABCDEFGHIJKLMNOPQRSTUVWXYZ"
DigitAlphabet == "0123456789"

CharsOf(s) == {CharAt(s, i) : i \in 1..Len(s)}
LowerChars == CharsOf(LowerAlphabet)
UpperChars == CharsOf(UpperAlphabet)
DigitChars == CharsOf(DigitAlphabet)

\* String.prototype.toUpperCase and toLowerCase on one character
UpperOfLower == [c \in LowerChars |->
  CharAt(UpperAlphabet, CHOOSE i \in 1..26 : CharAt(LowerAlphabet, i) = c)]
LowerOfUpper == [c \in UpperChars |->
  CharAt(LowerAlphabet, CHOOSE i \in 1..26 : CharAt(UpperAlphabet, i) = c)]

UpperChar(c) == IF c \in LowerChars THEN UpperOfLower[c] ELSE c

LowerChar(c) == IF c \in UpperChars THEN LowerOfUpper[c] ELSE c

\* character by character; the string is halved, which keeps the evaluation
\* of a long string shallow
RECURSIVE ToUpperCase(_)
ToUpperCase(s) ==
  IF Len(s) = 0 THEN ""
  ELSE IF Len(s) = 1 THEN UpperChar(s)
  ELSE ToUpperCase(SubSeq(s, 1, Len(s) \div 2))
         \o ToUpperCase(SubSeq(s, Len(s) \div 2 + 1, Len(s)))

RECURSIVE ToLowerCase(_)
ToLowerCase(s) ==
  IF Len(s) = 0 THEN ""
  ELSE IF Len(s) = 1 THEN LowerChar(s)
  ELSE ToLowerCase(SubSeq(s, 1, Len(s) \div 2))
         \o ToLowerCase(SubSeq(s, Len(s) \div 2 + 1, Len(s)))

\* what s.replace(/X+/g, rep) puts for the characters first..last of s: the
\* last character of a run of X gives rep, the others of the run nothing
RECURSIVE ReplaceRunsIn(_, _, _, _, _)
ReplaceRunsIn(s, class, rep, first, last) ==
  IF first > last THEN ""
  ELSE IF first = last
    THEN IF CharAt(s, first) \in class
           THEN IF first < Len(s) /\ CharAt(s, first + 1) \in class THEN "" ELSE rep
           ELSE CharAt(s, first)
  ELSE ReplaceRunsIn(s, class, rep, first, (first + last) \div 2)
         \o ReplaceRunsIn(s, class, rep, (first + last) \div 2 + 1, last)

\* s.replace(/X+/g, rep) for a class X of single characters
ReplaceRuns(s, class, rep) == ReplaceRunsIn(s, class, rep, 1, Len(s))

\* the characters of a string that are not in a class
CharsOutside(s, class) == {CharAt(s, i) : i \in 1..Len(s)} \ class

WhiteSpace == {" "}

RECURSIVE TrimStart(_)
TrimStart(s) ==
  IF Len(s) > 0 /\ CharAt(s, 1) \in WhiteSpace THEN TrimStart(SubSeq(s, 2, Len(s))) ELSE s

RECURSIVE TrimEnd(_)
TrimEnd(s) ==
  IF Len(s) > 0 /\ CharAt(s, Len(s)) \in WhiteSpace
    THEN TrimEnd(SubSeq(s, 1, Len(s) - 1)) ELSE s

Trim(s) == TrimEnd(TrimStart(s))

StartsWith(s, prefix) ==
  Len(prefix) <= Len(s) /\ SubSeq(s, 1, Len(prefix)) = prefix

\* String.prototype.includes
Includes(s, part) ==
  \E p \in 0..(Len(s) - Len(part)) : SubSeq(s, p + 1, p + Len(part)) = part

\* String.prototype.split on a single character of the class, empty pieces
\* kept: the pieces between consecutive cuts, a cut being a delimiter or an end
SplitOn(s, class) ==
  LET cuts == {0, Len(s) + 1} \cup {i \in 1..Len(s) : CharAt(s, i) \in class}
      cut(k) == CHOOSE c \in cuts : Cardinality({d \in cuts : d < c}) = k - 1
  IN  [k \in 1..(Cardinality(cuts) - 1) |-> SubSeq(s, cut(k) + 1, cut(k + 1) - 1)]

\* Array.prototype.filter(Boolean) on strings
RECURSIVE FilterNonEmpty(_)
FilterNonEmpty(seq) ==
  IF Len(seq) = 0 THEN <<>>
  ELSE (IF Len(Head(seq)) = 0 THEN <<>> ELSE <<Head(seq)>>) \o FilterNonEmpty(Tail(seq))

Max(a, b) == IF a >= b THEN a ELSE b
Min(a, b) == IF a <= b THEN a ELSE b
Abs(a) == IF a < 0 THEN -a ELSE a

\* the element of a one-element set: Only({F(x) : x \in {e}}) is F(e), with e
\* evaluated once, as a local constant of the code is
Only(S) == CHOOSE x \in S : TRUE

\* a table of precomputed values, and the value itself outside the table
Memoized(memo, key, value) == IF key \in DOMAIN memo THEN memo[key] ELSE value


(***************************************************************************)
(* lib/categorizer: text normalisation and merchant extraction             *)
(***************************************************************************)
\* the characters /[A-Z0-9@&]/ that normalize keeps
NormalizeKeep == UpperChars \cup DigitChars \cup {"@", "&"}

\* s.replace(/[^A-Z0-9@&]+/g, " "): a run of characters outside the class
ReplaceRunsOutside(s, keep, rep) == ReplaceRuns(s, CharsOutside(s, keep), rep)

NormalizeText(text) ==
  Trim(ReplaceRuns(ReplaceRunsOutside(ToUpperCase(text), NormalizeKeep, " "),
                   WhiteSpace, " "))

\* normalize on the remarks and merchant names of the statement pool,
\* evaluated once
NormalizeMemo ==
  [text \in {"UPI/ZOMATO/abc@bank", "UPI/ZOMATO/REFUND", "POS 4471",
             "SWIGGY BANGALORE IN", "**", "ZOMATO", "Unknown", "Unknown UPI", ""} |->
     NormalizeText(text)]

normalize(text) == Memoized(NormalizeMemo, text, NormalizeText(text))

normalizeMerchantKey(text) ==
  ReplaceRuns(ReplaceRuns(normalize(text), {"@", "&"}, ""), WhiteSpace, "")

MERCHANT_NOISE_WORDS ==
  {"UPI", "MMT", "IMPS", "NEFT", "BIL", "VIN", "VPS", "INFT", "TRF", "DR", "CR",
   "REF", "REFNO", "TRANSFER", "PAYMENT", "PAY", "TO", "FROM", "ACCOUNT", "ACC",
   "CARD", "DEBIT", "CREDIT", "TXN", "TRANSACTION", "CHARGE", "ATM", "CHEQUE",
   "CHQ", "UNKNOWN"}

isLikelyMerchantToken(token) ==
  \E normalizedToken \in {normalize(token)} :
    \E compact \in {ReplaceRuns(normalizedToken, WhiteSpace, "")} :
      /\ Len(normalizedToken) > 0
      /\ CharsOf(normalizedToken) \cap UpperChars # {}
      /\ Len(compact) >= 3
      /\ ~(CharsOf(compact) \subseteq DigitChars)
      /\ compact \notin MERCHANT_NOISE_WORDS

RECURSIVE TrimAll(_)
TrimAll(seq) ==
  IF Len(seq) = 0 THEN <<>> ELSE <<Trim(Head(seq))>> \o TrimAll(Tail(seq))

MerchantDelimiters == {"/", "|", ":", ";", "-", "_", "*"}

\* rawSegment.includes("@") ? rawSegment.split("@")[0] || rawSegment : rawSegment
SegmentBeforeAt(rawSegment) ==
  Only({IF Includes(rawSegment, "@") /\ Len(first) > 0 THEN first ELSE rawSegment :
          first \in {Head(SplitOn(rawSegment, {"@"}))}})

RECURSIVE FirstLikelyMerchant(_)
FirstLikelyMerchant(segments) ==
  IF Len(segments) = 0 THEN ""
  ELSE Only({IF isLikelyMerchantToken(segment) THEN normalize(segment)
             ELSE FirstLikelyMerchant(Tail(segments)) :
               segment \in {SegmentBeforeAt(Head(segments))}})

\* null is rendered as "": every caller reads the result through `|| fallback`
extractLikelyMerchant(remarks) ==
  FirstLikelyMerchant(FilterNonEmpty(TrimAll(SplitOn(remarks, MerchantDelimiters))))

OrElse(value, fallback) == IF Len(value) > 0 THEN value ELSE fallback

\* the channel buckets of extractMerchant, on remarks.toUpperCase() and on what
\* extractLikelyMerchant(remarks) gave
MerchantInBucket(normalizedRemarks, likelyMerchant) ==
  IF StartsWith(normalizedRemarks, "UPI/")
    THEN [merchant |-> OrElse(likelyMerchant, "Unknown UPI"), method |-> "UPI"]
  ELSE IF StartsWith(normalizedRemarks, "NEFT")
    THEN [merchant |-> OrElse(likelyMerchant, "Unknown NEFT"), method |-> "NEFT"]
  ELSE IF StartsWith(normalizedRemarks, "MMT/IMPS")
    THEN [merchant |-> OrElse(likelyMerchant, "Unknown IMPS"), method |-> "IMPS"]
  ELSE IF StartsWith(normalizedRemarks, "BIL/")
    THEN [merchant |-> OrElse(likelyMerchant, "Bill Payment"), method |-> "OTHER"]
  ELSE IF StartsWith(normalizedRemarks, "VIN/")
    THEN [merchant |-> OrElse(likelyMerchant, "Card Payment"), method |-> "CARD"]
  ELSE IF Includes(normalizedRemarks, "ATM")
          \/ Includes(normalizedRemarks, "CASH WITHDRAWAL")
    THEN [merchant |-> "ATM Withdrawal", method |-> "ATM"]
  ELSE IF Includes(normalizedRemarks, "CHQ") \/ Includes(normalizedRemarks, "CHEQUE")
    THEN [merchant |-> "Cheque", method |-> "CHEQUE"]
  ELSE [merchant |-> OrElse(likelyMerchant, "Unknown"), method |-> "OTHER"]

extractMerchant(remarks) ==
  MerchantInBucket(ToUpperCase(remarks), extractLikelyMerchant(remarks))

(***************************************************************************)
(* lib/categorizer: rules.  RulePool holds rules of every type; defaultRules *)
(* is the list the application categorizes with.                           *)
(***************************************************************************)
Rule(priority, categoryId, type, pattern, field) ==
  [priority |-> priority, categoryId |-> categoryId, type |-> type,
   pattern |-> pattern, field |-> field,
   hasMin |-> FALSE, minAmount |-> 0, hasMax |-> FALSE, maxAmount |-> 0]

AmountRule(priority, categoryId, minAmount, maxAmount) ==
  [priority |-> priority, categoryId |-> categoryId, type |-> "amount",
   pattern |-> "", field |-> "remarks",
   hasMin |-> TRUE, minAmount |-> minAmount, hasMax |-> TRUE, maxAmount |-> maxAmount]

\* rules of every type: a default rule, rules scoring exactly 60 and 59 on a
\* glued narration, rules tied on score, a regex that does not compile, a type
\* the engine does not know
RulePool ==
  { Rule(10, "food", "keyword", "ZOMATO|SWIGGY", "remarks"),
    Rule(30, "cafes", "keyword", "RESTAURANT", "remarks"),
    Rule(30, "groceries", "keyword", "RESTAURANT", "remarks"),
    Rule(31, "shopping", "keyword", "DHABA|RESTAURANT", "remarks"),
    Rule(23, "fuel", "keyword", "ESTAURAN", "remarks"),
    Rule(5, "rent", "regex", "(ZOMATO", "remarks"),
    Rule(40, "movies", "regex", "zomato", "remarks"),
    Rule(20, "medical", "merchant", "Zomato", "merchant"),
    Rule(2, "refunds", "deposit", "REFUND|REVERSAL", "remarks"),
    Rule(60, "family", "deposit", "", "remarks"),
    Rule(50, "fitness", "fuzzy", "ZOMATO", "remarks"),
    AmountRule(25, "utilities", 10000, 50000) }

KeywordRule(priority, categoryId, pattern) ==
  Rule(priority, categoryId, "keyword", pattern, "remarks")

defaultRules ==
  << Rule(1, "salary", "deposit",
          "SALARY|PAYROLL|PAY CREDIT|SAL CREDIT|COMPANY CREDIT", "remarks"),
     Rule(2, "refunds", "deposit",
          "REFUND|REVERSAL|CASHBACK|REWARD|REIMBURSEMENT|FAILED TXN", "remarks"),
     KeywordRule(10, "food",
       "ZOMATO|SWIGGY|EATSURE|FAASOS|BOX8|BURGER KING|KFC|MCDONALDS|DOMINOS|PIZZA HUT|SUBWAY|RESTAURANT|EATERY|DHABA|BISTRO|BIKANERVAL|Swiggy"),
     KeywordRule(11, "groceries",
       "BIGBASKET|BLINKIT|ZEPTO|INSTAMART|GROCERY|SUPERMARKET|DMART|RELIANCE FRESH|MORE|SPENCERS|NATURES BASKET"),
     KeywordRule(12, "cafes",
       "STARBUCKS|CCD|CAFE COFFEE DAY|COSTA|BARISTA|CHAAYOS|BLUE TOKAI|THIRD WAVE|COFFEE"),
     KeywordRule(30, "rent",
       "RENT|HOUSE RENT|NOBROKER|NESTAWAY|HOUSING|APARTMENT|LANDLORD|PROPERTY MANAGEMENT"),
     KeywordRule(31, "utilities",
       "ELECTRICITY|POWER BILL|WATER BILL|GAS BILL|UTILITY|BESCOM|BROADBAND|AIRTEL FIBER|JIO FIBER|ACT FIBERNET|DTH|AIRTEL"),
     KeywordRule(40, "fuel",
       "PETROL|DIESEL|FUEL|HPCL|INDIAN OIL|BHARAT PETROLEUM|SHELL"),
     KeywordRule(41, "transport",
       "METRO|RAILWAY|IRCTC|BUS|KSRTC|BMTC|REDBUS|AIRINDIA|OLA|UBER|RAPIDO|NAMMA YATRI|TAXI|CAB|AUTO RIDE|MERU|PORTER"),
     KeywordRule(50, "electronics",
       "CROMA|RELIANCE DIGITAL|VIJAY SALES|APPLE|SAMSUNG|MI STORE|ELECTRONICS"),
     KeywordRule(51, "shopping",
       "AMAZON|FLIPKART|NYKAA|MEESHO|SHOPPING|MYNTRA|AJIO|H&M|HM|ZARA|WESTSIDE|PANTALOONS|MAX FASHION|SHOPPERS STOP"),
     KeywordRule(60, "streaming",
       "NETFLIX|PRIME VIDEO|HOTSTAR|DISNEY|SPOTIFY|YOUTUBE|APPLE MUSIC|JIO CINEMA|SONY LIV|ZEE5"),
     KeywordRule(61, "movies", "PVR|INOX|CINEPOLIS|BOOKMYSHOW|MOVIE|CINEMA"),
     KeywordRule(70, "medical",
       "APOLLO|1MG|PHARMEASY|NETMEDS|HOSPITAL|CLINIC|MEDICAL|PHARMACY|PRACTO|LABS"),
     KeywordRule(71, "fitness", "CULT|FITNESS|GYM|YOGA|FITPASS|HEALTH CLUB"),
     KeywordRule(80, "family",
       "FAMILY|MOTHER|FATHER|MOM|DAD|SISTER|BROTHER|HOME TRANSFER"),
     KeywordRule(81, "friends", "FRIEND|SETTLEMENT|SPLITWISE|PAYBACK"),
     KeywordRule(90, "transfers",
       "TRANSFER|SELF|SAVINGS|IMPS|NEFT|ATM|CASH WITHDRAWAL|CHEQUE|CHQ") >>

DefaultRuleSet == {defaultRules[i] : i \in 1..Len(defaultRules)}

(***************************************************************************)
(* lib/categorizer: rule scoring.  Scores are in tenths of a point.        *)
(***************************************************************************)
\* \w of a JavaScript regular expression
IsWordChar(c) == c \in UpperChars \cup LowerChars \cup DigitChars \cup {"_"}

\* \b between the p-th and the (p+1)-th character of text, p in 0..Len(text)
WordBoundaryAt(text, p) ==
  LET left == p >= 1 /\ IsWordChar(CharAt(text, p))
      right == p < Len(text) /\ IsWordChar(CharAt(text, p + 1))
  IN  left # right

\* new RegExp(`(?:^|\\b)${keyword}(?:\\b|$)`, "i").test(text), for a normalized
\* keyword (its blanks match \s+, one blank of a normalized text)
BoundaryRegexTest(text, keyword) ==
  \E upperText \in {ToUpperCase(text)}, upperKeyword \in {ToUpperCase(keyword)} :
    \E p \in 0..(Len(text) - Len(keyword)) :
      /\ SubSeq(upperText, p + 1, p + Len(keyword)) = upperKeyword
      /\ (p = 0 \/ WordBoundaryAt(text, p))
      /\ (WordBoundaryAt(text, p + Len(keyword)) \/ p + Len(keyword) = Len(text))

RECURSIVE NormalizeAll(_)
NormalizeAll(seq) ==
  IF Len(seq) = 0 THEN <<>> ELSE <<normalize(Head(seq))>> \o NormalizeAll(Tail(seq))

KeywordLengthBoost(keyword) == Min(Len(ReplaceRuns(keyword, WhiteSpace, "")), 20) * 12

KeywordScore(text, keyword) ==
  IF BoundaryRegexTest(text, keyword) THEN 450 + KeywordLengthBoost(keyword)
  ELSE IF Includes(text, keyword) THEN 280 + KeywordLengthBoost(keyword)
  ELSE 0

RECURSIVE BestKeywordScore(_, _)
BestKeywordScore(text, keywords) ==
  IF Len(keywords) = 0 THEN 0
  ELSE Max(KeywordScore(text, Head(keywords)), BestKeywordScore(text, Tail(keywords)))

\* pattern.split("|").map(normalize).filter(Boolean)
Keywords(pattern) == FilterNonEmpty(NormalizeAll(SplitOn(pattern, {"|"})))

\* the keywords of the patterns of the modelled rules, evaluated once
KeywordsMemo ==
  [pattern \in {rule.pattern : rule \in RulePool \cup DefaultRuleSet} |->
     Keywords(pattern)]

scoreKeywordMatch(text, pattern) ==
  BestKeywordScore(text, Memoized(KeywordsMemo, pattern, Keywords(pattern)))

\* new RegExp(pattern, "i") throws a SyntaxError: of the patterns modelled, the
\* ones that open a group and never close it
RegExpThrows(pattern) == Includes(pattern, "(") /\ ~Includes(pattern, ")")

\* new RegExp(pattern, "i").test(text) for a pattern of literal characters
RegExpTest(pattern, text) == Includes(ToUpperCase(text), ToUpperCase(pattern))

\* an exception leaving a function, as a score and as a category
Raised == -1
RaisedCategory == "<exception>"

priorityBoost(rule) == Max(0, 25 - Min(rule.priority, 25)) * 7

\* transaction.withdrawalAmount || transaction.depositAmount
RuleAmount(transaction) ==
  IF transaction.withdrawalAmount # 0 THEN transaction.withdrawalAmount
  ELSE transaction.depositAmount

\* the regex branch without its try/catch: the SyntaxError leaves the function
RegexRuleScore_NoCatch(rule, text) ==
  IF RegExpThrows(rule.pattern) THEN Raised
  ELSE IF RegExpTest(rule.pattern, text) THEN 950 + priorityBoost(rule) ELSE 0

\* the regex branch with a catch that reports a match
RegexRuleScore_CatchMatches(rule, text) ==
  IF RegExpThrows(rule.pattern) \/ RegExpTest(rule.pattern, text)
    THEN 950 + priorityBoost(rule) ELSE 0

RegexRuleScore(rule, text) ==
  IF RegExpThrows(rule.pattern) THEN 0
  ELSE IF RegExpTest(rule.pattern, text) THEN 950 + priorityBoost(rule) ELSE 0

\* keywordScore <= 0 ? 0 : base + keywordScore + priorityBoost
KeywordRuleScore(keywordScore, base, rule) ==
  IF keywordScore <= 0 THEN 0 ELSE base + keywordScore + priorityBoost(rule)

getRuleMatchScore(transaction, rule) ==
  IF rule.hasMin /\ RuleAmount(transaction) < rule.minAmount THEN 0
  ELSE IF rule.hasMax /\ RuleAmount(transaction) > rule.maxAmount THEN 0
  ELSE IF rule.type = "deposit"
    THEN IF transaction.depositAmount <= 0 THEN 0
         ELSE IF Len(rule.pattern) = 0 THEN 650 + priorityBoost(rule)
         ELSE KeywordRuleScore(
                scoreKeywordMatch(normalize(transaction.remarks), rule.pattern),
                350, rule)
  ELSE Only({
    IF rule.type = "keyword"
      THEN KeywordRuleScore(scoreKeywordMatch(text, rule.pattern), 200, rule)
    ELSE IF rule.type = "regex" THEN RegexRuleScore(rule, text)
    ELSE IF rule.type = "merchant"
      THEN IF text = normalize(rule.pattern) THEN 1000 + priorityBoost(rule) ELSE 0
    ELSE IF rule.type = "amount" THEN 550 + priorityBoost(rule)
    ELSE 0 :
      text \in {normalize(IF rule.field = "merchant" THEN transaction.merchantName
                          ELSE transaction.remarks)}})

(***************************************************************************)
(* lib/categorizer: merchant hints.  A hint's confidence is count / total. *)
(***************************************************************************)
MinHintCount == 2
MinHintConfidencePct == 65

\* a MerchantCategoryHint, its confidence kept as count / total
Hint(categoryId, count, total) == [categoryId |-> categoryId, count |-> count, total |-> total]

\* confidence < 0.65, for confidence = count / total
ConfidenceBelow(count, total) == 100 * count < MinHintConfidencePct * total

\* null is rendered as "": the caller reads the result through `if (hinted)`
categoryFromHints(transaction, merchantHints) ==
  IF Len(transaction.merchantName) = 0 THEN ""
  ELSE Only({
    IF Len(merchantKey) < 3 \/ merchantKey = "UNKNOWN" THEN ""
    ELSE IF merchantKey \notin DOMAIN merchantHints THEN ""
    ELSE LET hint == merchantHints[merchantKey]
         IN  IF hint.count < MinHintCount \/ ConfidenceBelow(hint.count, hint.total)
               THEN ""
               ELSE hint.categoryId :
      merchantKey \in {normalizeMerchantKey(transaction.merchantName)}})

(***************************************************************************)
(* lib/categorizer: buildMerchantHints.  byMerchant maps a merchant key to  *)
(* its total and to byCategory, the (category, count) entries in the order  *)
(* the Map received them.                                                   *)
(***************************************************************************)
\* tx.userCategoryOverride || tx.categoryId
EffectiveCategory(tx) == OrElse(tx.userCategoryOverride, tx.categoryId)

HistoricalMerchantKey(tx) ==
  normalizeMerchantKey(OrElse(tx.merchantName, extractMerchant(tx.remarks).merchant))

\* whether the first loop skips a transaction of this category and merchant key
HistoricalSkipped(effectiveCategory, merchantKey) ==
  \/ Len(effectiveCategory) = 0
  \/ effectiveCategory = "uncategorized"
  \/ Len(merchantKey) < 3
  \/ merchantKey = "UNKNOWN"

\* byCategory.set(category, (byCategory.get(category) || 0) + 1)
BumpCategory(byCategory, category) ==
  IF \E i \in 1..Len(byCategory) : byCategory[i].categoryId = category
    THEN [i \in 1..Len(byCategory) |->
            IF byCategory[i].categoryId = category
              THEN [byCategory[i] EXCEPT !.count = @ + 1]
              ELSE byCategory[i]]
    ELSE Append(byCategory, [categoryId |-> category, count |-> 1])

\* byMerchant.set(merchantKey, existing), after existing was counted up
CountHistorical(byMerchant, effectiveCategory, merchantKey) ==
  LET existing == IF merchantKey \in DOMAIN byMerchant THEN byMerchant[merchantKey]
                  ELSE [total |-> 0, byCategory |-> <<>>]
  IN  [k \in DOMAIN byMerchant \cup {merchantKey} |->
         IF k = merchantKey
           THEN [total |-> existing.total + 1,
                 byCategory |-> BumpCategory(existing.byCategory, effectiveCategory)]
           ELSE byMerchant[k]]

\* one iteration of `for (const tx of historicalTransactions)`
AccumulateHistorical(byMerchant, tx) ==
  Only({IF HistoricalSkipped(effectiveCategory, merchantKey) THEN byMerchant
        ELSE CountHistorical(byMerchant, effectiveCategory, merchantKey) :
          effectiveCategory \in {EffectiveCategory(tx)},
          merchantKey \in {HistoricalMerchantKey(tx)}})

\* Array.prototype.sort((a, b) => b[1] - a[1]), a stable sort: an entry goes
\* before the first sorted entry whose count is not greater than its own
RECURSIVE InsertByCountDesc(_, _)
InsertByCountDesc(entry, sorted) ==
  IF Len(sorted) = 0 THEN <<entry>>
  ELSE IF Head(sorted).count <= entry.count THEN <<entry>> \o sorted
  ELSE <<Head(sorted)>> \o InsertByCountDesc(entry, Tail(sorted))

RECURSIVE SortByCountDesc(_)
SortByCountDesc(entries) ==
  IF Len(entries) = 0 THEN <<>>
  ELSE InsertByCountDesc(Head(entries), SortByCountDesc(Tail(entries)))

\* the gate without its minimum count
HintQualifies_NoCountGate(topCount, total) == ~ConfidenceBelow(topCount, total)

\* the gate without its minimum confidence
HintQualifies_NoConfidenceGate(topCount, total) == ~(topCount < MinHintCount)

\* !(topCount < 2 || confidence < 0.65)
HintQualifies(topCount, total) ==
  ~(topCount < MinHintCount \/ ConfidenceBelow(topCount, total))

\* the second loop: the hint of each merchant whose top category qualifies
HintsFrom(byMerchant) ==
  LET sortedCategories == [k \in DOMAIN byMerchant |->
                             SortByCountDesc(byMerchant[k].byCategory)]
  IN  [k \in {k \in DOMAIN byMerchant :
                 /\ Len(sortedCategories[k]) > 0
                 /\ HintQualifies(sortedCategories[k][1].count, byMerchant[k].total)} |->
         Hint(sortedCategories[k][1].categoryId, sortedCategories[k][1].count,
              byMerchant[k].total)]

RECURSIVE ByMerchantAfter(_, _)
ByMerchantAfter(historicalTransactions, n) ==
  IF n = 0 THEN <<>>
  ELSE AccumulateHistorical(ByMerchantAfter(historicalTransactions, n - 1),
                            historicalTransactions[n])

buildMerchantHints(historicalTransactions) ==
  HintsFrom(ByMerchantAfter(historicalTransactions, Len(historicalTransactions)))

(***************************************************************************)
(* State                                                                   *)
(***************************************************************************)
VARIABLES
  \* one call of categorizeTransaction: its arguments, the score the rule loop
  \* computed for each rule, bestMatch after the loop, and what it returned
  catTx, catRules, catHints, catScores, catBest, catResult

VARIABLES
  \* one call of buildMerchantHints: byMerchant as the first loop fills it, and
  \* the hints the second loop returns
  hbByMerchant, hbPhase, hbHints

VARIABLES
  \* one call of processTransactions: its arguments, merchantHints,
  \* currentStatementMerchantAssignments, the transactions mapped so far, and
  \* for each of them its merchant key and whether categorizeTransaction ran
  ptRaw, ptRules, ptType, ptHints, ptAssignments, ptOut, ptTrace

VARIABLES
  \* the transactions table, the `transactions` array the page last rendered,
  \* and one run of handleRecategorizeAll: whether it is under way, its updates,
  \* the start of the next chunk, updatedCount, and the runs started so far
  rcDb, rcSeen, rcRunning, rcUpdates, rcStart, rcUpdatedCount, rcRuns,
  \* and the updateCategory calls made so far
  rcEdits

VARIABLES
  \* one run of a statement parser: which parser, the rows, blocks or lines it
  \* reads and how many it has read, the period the statement declares,
  \* previousBalance, openingBalance, serialNo, the transactions pushed, for each
  \* of them the row, block or line it came from, and how the parser ended
  psParser, psInput, psPos, psPeriod, psPreviousBalance, psOpeningBalance,
  psSerialNo, psTransactions, psTrace, psOutcome

VARIABLES
  \* one call of resolveStatementDateRange: its arguments (the transactions by
  \* their transactionDate), the clock, and what it returned
  rgPeriodFrom, rgPeriodTo, rgTxDates, rgNow, rgResult

VARIABLES
  \* the database: the statements table and the transactions table, the next
  \* id the database assigns, the mutations run so far, and the last of them
  \* with its arguments, the tables as it found them and what it returned
  stStatements, stTransactions, stNextId, stCalls, stLast

VARIABLES
  \* one run of parseICICIDebitPdfStatement over the lines of a PDF: the lines
  \* read so far, inTransactionSection, pendingPrelude, currentBlock, the
  \* parser's previousBalance, openingBalance, serialNo and transactions,
  \* totalBalanceLines, the blocks finalized so far, and how the run ended
  dpLines, dpInTransactionSection, dpPendingPrelude, dpCurrentBlock, dpParser,
  dpTotalBalanceLines, dpBlocks, dpOutcome

VARIABLES
  \* the scan of parseICICIDebitStatement for the markers of a sheet: the rows
  \* of the sheet, how many were scanned, accountNumber, accountHolder,
  \* dateFrom, dateTo, headerRowIndex and columnOffset, and how the scan ended
  mkData, mkPos, mkMeta, mkOutcome

VARIABLES
  \* one call of extractMerchant: its argument and what it returned
  emRemarks, emInfo

VARIABLES
  \* one call of importStatementWithCompatibility: `payload`, `attempt`, how
  \* often the mutation was invoked, where the call stands and what it threw
  imPayload, imAttempt, imCalls, imPhase, imThrown

catVars == <<catTx, catRules, catHints, catScores, catBest, catResult>>
hbVars == <<hbByMerchant, hbPhase, hbHints>>
ptVars == <<ptRaw, ptRules, ptType, ptHints, ptAssignments, ptOut, ptTrace>>
rcVars == <<rcDb, rcSeen, rcRunning, rcUpdates, rcStart, rcUpdatedCount, rcRuns, rcEdits>>
psVars == <<psParser, psInput, psPos, psPeriod, psPreviousBalance, psOpeningBalance, psSerialNo, psTransactions, psTrace, psOutcome>>
rgVars == <<rgPeriodFrom, rgPeriodTo, rgTxDates, rgNow, rgResult>>
stVars == <<stStatements, stTransactions, stNextId, stCalls, stLast>>
dpVars == <<dpLines, dpInTransactionSection, dpPendingPrelude, dpCurrentBlock, dpParser, dpTotalBalanceLines, dpBlocks, dpOutcome>>
mkVars == <<mkData, mkPos, mkMeta, mkOutcome>>
emVars == <<emRemarks, emInfo>>
imVars == <<imPayload, imAttempt, imCalls, imPhase, imThrown>>
vars == <<catVars, hbVars, ptVars, rcVars, psVars, rgVars, stVars, dpVars, mkVars, emVars, imVars>>

\* the variables of the machines a specification leaves alone
CatIdle ==
  /\ catTx = [remarks |-> "", merchantName |-> "", withdrawalAmount |-> 0,
              depositAmount |-> 0]
  /\ catRules = <<>>
  /\ catHints = <<>>
  /\ catScores = <<>>
  /\ catBest = [categoryId |-> "", score |-> 0, priority |-> 0]
  /\ catResult = "<idle>"

RcIdle ==
  /\ rcDb = <<>>
  /\ rcSeen = <<>>
  /\ rcRunning = FALSE
  /\ rcUpdates = <<>>
  /\ rcStart = 0
  /\ rcUpdatedCount = 0
  /\ rcRuns = 0
  /\ rcEdits = 0

PsIdle ==
  /\ psParser = "idle"
  /\ psInput = <<>>
  /\ psPos = 0
  /\ psPeriod = <<>>
  /\ psPreviousBalance = [defined |-> FALSE, value |-> 0]
  /\ psOpeningBalance = [defined |-> FALSE, value |-> 0]
  /\ psSerialNo = 1
  /\ psTransactions = <<>>
  /\ psTrace = <<>>
  /\ psOutcome = [kind |-> "idle", transactions |-> <<>>, dateFrom |-> 0, dateTo |-> 0]

RgIdle ==
  /\ rgPeriodFrom = [kind |-> "null", time |-> 0]
  /\ rgPeriodTo = [kind |-> "null", time |-> 0]
  /\ rgTxDates = <<>>
  /\ rgNow = 0
  /\ rgResult = <<>>

HbIdle ==
  /\ hbByMerchant = <<>>
  /\ hbPhase = "idle"
  /\ hbHints = <<>>

PtIdle ==
  /\ ptRaw = <<>>
  /\ ptRules = <<>>
  /\ ptType = "idle"
  /\ ptHints = <<>>
  /\ ptAssignments = <<>>
  /\ ptOut = <<>>
  /\ ptTrace = <<>>

StIdle ==
  /\ stStatements = {}
  /\ stTransactions = {}
  /\ stNextId = 1
  /\ stCalls = 0
  /\ stLast = [op |-> "idle"]

DpIdle ==
  /\ dpLines = <<>>
  /\ dpInTransactionSection = FALSE
  /\ dpPendingPrelude = <<>>
  /\ dpCurrentBlock = [isNull |-> TRUE]
  /\ dpParser = [previousBalance |-> [defined |-> FALSE, value |-> 0],
                 openingBalance |-> [defined |-> FALSE, value |-> 0],
                 serialNo |-> 1, transactions |-> <<>>]
  /\ dpTotalBalanceLines = <<>>
  /\ dpBlocks = <<>>
  /\ dpOutcome = [kind |-> "idle"]

MkIdle ==
  /\ mkData = <<>>
  /\ mkPos = 0
  /\ mkMeta = [accountNumber |-> "", accountHolder |-> ""]
  /\ mkOutcome = "idle"

EmIdle ==
  /\ emRemarks = ""
  /\ emInfo = [merchant |-> "", method |-> "idle"]

ImIdle ==
  /\ imPayload = [statement |-> {}, transactions |-> <<>>]
  /\ imAttempt = 0
  /\ imCalls = 0
  /\ imPhase = "off"
  /\ imThrown = [kind |-> "none", message |-> ""]

Pending == "<pending>"

(***************************************************************************)
(* Inputs of categorizeTransaction                                         *)
(***************************************************************************)
CatTx(remarks, withdrawalAmount, depositAmount) ==
  [remarks |-> remarks, merchantName |-> extractMerchant(remarks).merchant,
   withdrawalAmount |-> withdrawalAmount, depositAmount |-> depositAmount]

CatTxPool ==
  { CatTx("UPI/ZOMATO/abc@bank", 25000, 0),
    CatTx("UPI/MYRESTAURANTS/pay@bank", 90000, 0),
    CatTx("UPI/ZOMATO/REFUND", 0, 25000),
    CatTx("NEFT-ACME CORP-PAYROLL", 0, 5000000),
    CatTx("ATM/CASH WITHDRAWAL", 200000, 0),
    CatTx("ATM CASH DEPOSIT SALARY", 0, 50000),
    CatTx("MMT/IMPS/4021/rent", 0, 120000),
    [remarks |-> "POS 4471", merchantName |-> "", withdrawalAmount |-> 4500,
     depositAmount |-> 0] }

\* hint maps: none, a qualifying hint, hints below either threshold
HintMapPool ==
  { <<>>,
    [k \in {"ZOMATO", "MYRESTAURANTS"} |-> Hint("travel", 13, 20)],
    [k \in {"ZOMATO", "MYRESTAURANTS"} |->
       IF k = "ZOMATO" THEN Hint("travel", 1, 1) ELSE Hint("travel", 16, 25)] }

MaxRules == 2

RECURSIVE SeqsUpTo(_, _)
SeqsUpTo(S, n) ==
  IF n = 0 THEN {<<>>}
  ELSE LET shorter == SeqsUpTo(S, n - 1)
       IN  shorter \cup {Append(q, e) : q \in shorter, e \in S}

(***************************************************************************)
(* lib/categorizer: defaultRules, and the inputs of processTransactions     *)
(***************************************************************************)
\* a RawTransaction, as far as categorization reads it
RawTx(remarks, withdrawalAmount, depositAmount) ==
  [remarks |-> remarks, withdrawalAmount |-> withdrawalAmount,
   depositAmount |-> depositAmount]

\* one merchant paid and refunding, a narration no rule knows as a payment and
\* as a deposit, a card narration, and a narration without letters or digits
PtRawPool ==
  { RawTx("UPI/ZOMATO/abc@bank", 25000, 0),
    RawTx("UPI/ZOMATO/REFUND", 0, 25000),
    RawTx("POS 4471", 4500, 0),
    RawTx("POS 4471", 0, 4500),
    RawTx("SWIGGY BANGALORE IN", 31200, 0),
    RawTx("**", 0, 1000) }

StatementTypes == {"debit", "credit"}

\* merchantInfo of processTransactions
MerchantInfoOf(tx, statementType) ==
  IF statementType = "credit"
    THEN [merchant |-> OrElse(extractLikelyMerchant(tx.remarks), normalize(tx.remarks)),
          method |-> "CARD"]
    ELSE extractMerchant(tx.remarks)

\* the object processTransactions passes to categorizeTransaction
TransactionView(tx, merchantInfo) ==
  [remarks |-> tx.remarks, merchantName |-> merchantInfo.merchant,
   withdrawalAmount |-> tx.withdrawalAmount, depositAmount |-> tx.depositAmount]

(***************************************************************************)
(* lib/categorizer: categorizeTransaction                                  *)
(***************************************************************************)
RuleThreshold == 600

NoMatch == [categoryId |-> "", score |-> 0, priority |-> 0]

\* the iteration without its priority tie-break
BetterMatch_NoTieBreak(bestMatch, rule, score) ==
  IF score <= 0 THEN bestMatch
  ELSE IF bestMatch = NoMatch \/ score > bestMatch.score
    THEN [categoryId |-> rule.categoryId, score |-> score, priority |-> rule.priority]
    ELSE bestMatch

\* one iteration of `for (const rule of rules)`
BetterMatch(bestMatch, rule, score) ==
  IF score <= 0 THEN bestMatch
  ELSE IF \/ bestMatch = NoMatch
          \/ score > bestMatch.score
          \/ (score = bestMatch.score /\ rule.priority < bestMatch.priority)
    THEN [categoryId |-> rule.categoryId, score |-> score, priority |-> rule.priority]
    ELSE bestMatch

\* merchantInfo for the transactions of the pool, evaluated once
MerchantInfoMemo ==
  [pair \in PtRawPool \X StatementTypes |-> MerchantInfoOf(pair[1], pair[2])]

\* getRuleMatchScore on the transactions and rules of the pools, evaluated once
ScoreMemo ==
  [pair \in CatTxPool \X RulePool |-> getRuleMatchScore(pair[1], pair[2])]

RuleScore(transaction, rule) ==
  Memoized(ScoreMemo, <<transaction, rule>>, getRuleMatchScore(transaction, rule))

\* the score of each rule of the list, in the list's order
RuleScoresOf(transaction, rules) ==
  [i \in 1..Len(rules) |-> RuleScore(transaction, rules[i])]

\* the scores of defaultRules on the transactions of the statement pool,
\* evaluated once
DefaultScoresMemo ==
  [transaction \in {TransactionView(raw[1], MerchantInfoMemo[raw]) :
                      raw \in PtRawPool \X StatementTypes} |->
     RuleScoresOf(transaction, defaultRules)]

RuleScores(transaction, rules) ==
  IF rules = defaultRules
    THEN Memoized(DefaultScoresMemo, transaction, RuleScoresOf(transaction, rules))
    ELSE RuleScoresOf(transaction, rules)

\* bestMatch after the first n iterations of the rule loop
RECURSIVE BestMatchAfter(_, _, _)
BestMatchAfter(rules, scores, n) ==
  IF n = 0 THEN NoMatch
  ELSE BetterMatch(BestMatchAfter(rules, scores, n - 1), rules[n], scores[n])

BestMatchOf(transaction, rules) ==
  BestMatchAfter(rules, RuleScores(transaction, rules), Len(rules))

\* the fallbacks with the deposit test ahead of the transfer keywords
FallbackCategory_DepositsFirst(transaction) ==
  Only({
    IF transaction.depositAmount > 0
      THEN IF Includes(normalizedRemarks, "SALARY") \/ Includes(normalizedRemarks, "PAYROLL")
             THEN "salary"
           ELSE IF \/ Includes(normalizedRemarks, "REFUND")
                   \/ Includes(normalizedRemarks, "REVERSAL")
                   \/ Includes(normalizedRemarks, "CASHBACK")
                   \/ Includes(normalizedRemarks, "REWARD")
             THEN "refunds"
           ELSE "income"
    ELSE IF \/ Includes(normalizedRemarks, "ATM")
            \/ Includes(normalizedRemarks, "CASH WITHDRAWAL")
            \/ Includes(normalizedRemarks, "SELF TRANSFER")
      THEN "transfers"
    ELSE "uncategorized" :
      normalizedRemarks \in {normalize(transaction.remarks)}})

FallbackCategory(transaction) ==
  Only({
    IF \/ Includes(normalizedRemarks, "ATM")
       \/ Includes(normalizedRemarks, "CASH WITHDRAWAL")
       \/ Includes(normalizedRemarks, "SELF TRANSFER")
      THEN "transfers"
    ELSE IF transaction.depositAmount > 0
      THEN IF Includes(normalizedRemarks, "SALARY") \/ Includes(normalizedRemarks, "PAYROLL")
             THEN "salary"
           ELSE IF \/ Includes(normalizedRemarks, "REFUND")
                   \/ Includes(normalizedRemarks, "REVERSAL")
                   \/ Includes(normalizedRemarks, "CASHBACK")
                   \/ Includes(normalizedRemarks, "REWARD")
             THEN "refunds"
           ELSE "income"
    ELSE "uncategorized" :
      normalizedRemarks \in {normalize(transaction.remarks)}})

\* the threshold test with > in place of >=
RuleDecides_Strict(bestMatch) == bestMatch # NoMatch /\ bestMatch.score > RuleThreshold

\* whether the rule path decides: bestMatch && bestMatch.score >= 60
RuleDecides(bestMatch) == bestMatch # NoMatch /\ bestMatch.score >= RuleThreshold

\* the body of categorizeTransaction after its rule loop computed `scores`
CategoryAfterScoring(transaction, rules, scores, merchantHints) ==
  IF \E i \in 1..Len(rules) : scores[i] = Raised THEN RaisedCategory
  ELSE Only({
    IF RuleDecides(bestMatch) THEN bestMatch.categoryId
    ELSE OrElse(categoryFromHints(transaction, merchantHints),
                FallbackCategory(transaction)) :
      bestMatch \in {BestMatchAfter(rules, scores, Len(rules))}})

categorizeTransaction(transaction, rules, merchantHints) ==
  CategoryAfterScoring(transaction, rules, RuleScores(transaction, rules), merchantHints)

(***************************************************************************)
(* categorizeTransaction as a machine: the call, then its return           *)
(***************************************************************************)
CatInit ==
  /\ catTx \in CatTxPool
  /\ catRules \in SeqsUpTo(RulePool, MaxRules)
  /\ catHints \in HintMapPool
  /\ catScores = <<>>
  /\ catBest = NoMatch
  /\ catResult = Pending
  /\ HbIdle /\ PtIdle /\ RcIdle /\ PsIdle /\ RgIdle /\ StIdle /\ DpIdle /\ MkIdle /\ EmIdle /\ ImIdle

Categorize ==
  /\ catResult = Pending
  /\ LET scores == RuleScores(catTx, catRules)
     IN  /\ catScores' = scores
         /\ catBest' = BestMatchAfter(catRules, scores, Len(catRules))
         /\ catResult' = CategoryAfterScoring(catTx, catRules, scores, catHints)
  /\ UNCHANGED <<catTx, catRules, catHints, hbVars, ptVars, rcVars, psVars, rgVars,
                 stVars, dpVars, mkVars, emVars, imVars>>

SpecCat == CatInit /\ [][Categorize]_vars

(***************************************************************************)
(* buildMerchantHints as a machine: one historical transaction per step of *)
(* the first loop, then the second loop                                    *)
(***************************************************************************)
Historical(remarks, merchantName, categoryId, userCategoryOverride) ==
  [remarks |-> remarks, merchantName |-> merchantName, categoryId |-> categoryId,
   userCategoryOverride |-> userCategoryOverride,
   withdrawalAmount |-> 10000, depositAmount |-> 0]

\* stored transactions: two categories of one merchant (one through an
\* override), a merchant inferred from the narration, and the skipped kinds
HistoricalPool ==
  { Historical("UPI/ZOMATO/abc@bank", "ZOMATO", "food", ""),
    Historical("UPI/ZOMATO/abc@bank", "ZOMATO", "food", "cafes"),
    Historical("UPI/SWIGGY/xyz@bank", "", "food", ""),
    Historical("UPI/ZOMATO/abc@bank", "ZOMATO", "uncategorized", ""),
    Historical("7781/22", "", "transfers", ""),
    Historical("BIL/AB", "AB", "utilities", "") }

MaxHistorical == 25

RECURSIVE SumTotals(_, _)
SumTotals(byMerchant, keys) ==
  IF keys = {} THEN 0
  ELSE LET k == CHOOSE k \in keys : TRUE
       IN  byMerchant[k].total + SumTotals(byMerchant, keys \ {k})

HbInit ==
  /\ hbByMerchant = <<>>
  /\ hbPhase = "scan"
  /\ hbHints = <<>>
  /\ CatIdle /\ PtIdle /\ RcIdle /\ PsIdle /\ RgIdle /\ StIdle /\ DpIdle /\ MkIdle /\ EmIdle /\ ImIdle

ScanHistorical ==
  /\ hbPhase = "scan"
  /\ SumTotals(hbByMerchant, DOMAIN hbByMerchant) < MaxHistorical
  /\ \E tx \in HistoricalPool :
       hbByMerchant' = AccumulateHistorical(hbByMerchant, tx)
  /\ UNCHANGED <<hbPhase, hbHints, catVars, ptVars, rcVars, psVars, rgVars,
                 stVars, dpVars, mkVars, emVars, imVars>>

EmitHints ==
  /\ hbPhase = "scan"
  /\ hbHints' = HintsFrom(hbByMerchant)
  /\ hbPhase' = "built"
  /\ UNCHANGED <<hbByMerchant, catVars, ptVars, rcVars, psVars, rgVars,
                 stVars, dpVars, mkVars, emVars, imVars>>

HbNext == ScanHistorical \/ EmitHints

SpecHints == HbInit /\ [][HbNext]_vars

(***************************************************************************)
(* lib/categorizer: processTransactions, one transaction of                *)
(* rawTransactions.map per step                                            *)
(***************************************************************************)
\* the lookup without the session cache
SessionCategory_NoCache(assignments, merchantKey) == ""

\* currentStatementMerchantAssignments.get(merchantKey), undefined as ""
SessionCategory(assignments, merchantKey) ==
  IF merchantKey \in DOMAIN assignments THEN assignments[merchantKey] ELSE ""

\* what the map callback returns and leaves behind, once merchantInfo,
\* merchantKey and categoryId are known
Categorized(assignments, tx, statementType, merchantInfo, merchantKey, scored, categoryId) ==
  [categorized |->
     [remarks |-> tx.remarks, withdrawalAmount |-> tx.withdrawalAmount,
      depositAmount |-> tx.depositAmount, merchantName |-> merchantInfo.merchant,
      paymentMethod |-> merchantInfo.method, statementType |-> statementType,
      categoryId |-> categoryId],
   assignments |->
     IF Len(merchantKey) > 0 /\ categoryId # "uncategorized"
       THEN [k \in DOMAIN assignments \cup {merchantKey} |->
               IF k = merchantKey THEN categoryId ELSE assignments[k]]
       ELSE assignments,
   merchantKey |-> merchantKey,
   scored |-> scored]

\* the map callback on one transaction: the CategorizedTransaction it returns,
\* the assignments it leaves, and whether it called categorizeTransaction
ProcessOne(assignments, tx, rules, statementType, merchantHints) ==
  Only({
    Only({
      Only({Categorized(assignments, tx, statementType, merchantInfo, merchantKey,
                        Len(sessionCategory) = 0,
                        IF Len(sessionCategory) > 0 THEN sessionCategory
                        ELSE categorizeTransaction(TransactionView(tx, merchantInfo),
                                                   rules, merchantHints)) :
              sessionCategory \in {SessionCategory(assignments, merchantKey)}}) :
        merchantKey \in {normalizeMerchantKey(merchantInfo.merchant)}}) :
      merchantInfo \in {Memoized(MerchantInfoMemo, <<tx, statementType>>,
                                 MerchantInfoOf(tx, statementType))}})

\* the array and the assignments after the first n transactions
RECURSIVE ProcessedAfter(_, _, _, _, _)
ProcessedAfter(rawTransactions, rules, statementType, merchantHints, n) ==
  IF n = 0 THEN [out |-> <<>>, assignments |-> <<>>]
  ELSE LET before == ProcessedAfter(rawTransactions, rules, statementType,
                                    merchantHints, n - 1)
           step == ProcessOne(before.assignments, rawTransactions[n], rules,
                              statementType, merchantHints)
       IN  [out |-> Append(before.out, step.categorized),
            assignments |-> step.assignments]

processTransactions(rawTransactions, rules, statementType, historicalTransactions) ==
  ProcessedAfter(rawTransactions, rules, statementType,
                 buildMerchantHints(historicalTransactions),
                 Len(rawTransactions)).out

MaxStatement == 3

\* options.historicalTransactions: none, or a merchant the user moved to cafes
PtHistoricalPool ==
  { <<>>,
    << Historical("UPI/ZOMATO/abc@bank", "ZOMATO", "food", "cafes"),
       Historical("UPI/ZOMATO/abc@bank", "ZOMATO", "food", "cafes"),
       Historical("POS 4471", "POS 4471", "uncategorized", "shopping"),
       Historical("POS 4471", "POS 4471", "uncategorized", "shopping") >> }

\* merchantHints as processTransactions builds them from the option
PtHintsPool ==
  {buildMerchantHints(historicalTransactions) :
     historicalTransactions \in PtHistoricalPool}

PtInit ==
  /\ ptRaw \in SeqsUpTo(PtRawPool, MaxStatement)
  /\ ptRules \in {defaultRules, <<>>}
  /\ ptType \in StatementTypes
  /\ ptHints \in PtHintsPool
  /\ ptAssignments = <<>>
  /\ ptOut = <<>>
  /\ ptTrace = <<>>
  /\ CatIdle /\ HbIdle /\ RcIdle /\ PsIdle /\ RgIdle /\ StIdle /\ DpIdle /\ MkIdle /\ EmIdle /\ ImIdle

ProcessNextTransaction ==
  /\ Len(ptOut) < Len(ptRaw)
  /\ LET step == ProcessOne(ptAssignments, ptRaw[Len(ptOut) + 1], ptRules, ptType,
                            ptHints)
     IN  /\ ptOut' = Append(ptOut, step.categorized)
         /\ ptAssignments' = step.assignments
         /\ ptTrace' = Append(ptTrace, [merchantKey |-> step.merchantKey,
                                        scored |-> step.scored])
  /\ UNCHANGED <<ptRaw, ptRules, ptType, ptHints, catVars, hbVars, rcVars, psVars, rgVars,
                 stVars, dpVars, mkVars, emVars, imVars>>

SpecPT == PtInit /\ [][ProcessNextTransaction]_vars

(***************************************************************************)
(* App.tsx and convex/categories.ts: re-categorizing stored transactions   *)
(***************************************************************************)
batchSize == 200

MaxStored == 3
MaxRuns == 2
MaxEdits == 2

\* a payment a default rule files under food, and one no rule knows, which the
\* hints of an earlier import filed under food
RcRawPool ==
  { RawTx("UPI/ZOMATO/abc@bank", 25000, 0), RawTx("POS 4471", 4500, 0) }

RcOverridePool == {"shopping"}

\* a document of the transactions table as batchInsert stored it: the first two
\* belong to a debit statement and share a date, the others to a card statement
Stored(id, raw, categoryId) ==
  [id |-> id,
   statementId |-> IF id <= 2 THEN "s1" ELSE "s2",
   serialNo |-> IF id <= 2 THEN 3 - id ELSE id,
   transactionDate |-> IF id <= 2 THEN 20 ELSE 10,
   remarks |-> raw.remarks,
   withdrawalAmount |-> raw.withdrawalAmount,
   depositAmount |-> raw.depositAmount,
   merchantName |-> MerchantInfoOf(raw, IF id <= 2 THEN "debit" ELSE "credit").merchant,
   statementType |-> IF id <= 2 THEN "debit" ELSE "credit",
   rewardPoints |-> 0,
   categoryId |-> categoryId,
   userCategoryOverride |-> ""]

\* api.transactions.list: the documents by transactionDate, latest first
list(db) ==
  SortSeq([k \in 1..Cardinality(DOMAIN db) |->
             db[CHOOSE id \in DOMAIN db :
                  Cardinality({other \in DOMAIN db : other < id}) = k - 1]],
          LAMBDA a, b : \/ a.transactionDate > b.transactionDate
                        \/ (a.transactionDate = b.transactionDate /\ a.id > b.id))

\* ctx.db.patch(update.id, { categoryId }) without its field list: the patch
\* also clears the override
PatchCategory_ClearingOverride(transaction, categoryId) ==
  [transaction EXCEPT !.categoryId = categoryId, !.userCategoryOverride = ""]

\* ctx.db.patch(update.id, { categoryId: update.categoryId })
PatchCategory(transaction, categoryId) ==
  [transaction EXCEPT !.categoryId = categoryId]

\* the table and the counts after the first n updates of the mutation's loop
RECURSIVE BatchAfter(_, _, _)
BatchAfter(db, updates, n) ==
  IF n = 0 THEN [db |-> db, updated |-> 0, skipped |-> 0]
  ELSE Only({
    IF \/ updates[n].id \notin DOMAIN before.db
       \/ before.db[updates[n].id].categoryId = updates[n].categoryId
      THEN [before EXCEPT !.skipped = @ + 1]
      ELSE [db |-> [before.db EXCEPT
                      ![updates[n].id] = PatchCategory(@, updates[n].categoryId)],
            updated |-> before.updated + 1,
            skipped |-> before.skipped] :
      before \in {BatchAfter(db, updates, n - 1)}})

batchUpdateCategoryIds(db, updates) == BatchAfter(db, updates, Len(updates))

\* transactions.filter((tx) => Boolean(tx.userCategoryOverride)).map(...)
TrainingSet(transactions) ==
  Only({[i \in 1..Len(overridden) |->
           [remarks |-> overridden[i].remarks,
            merchantName |-> overridden[i].merchantName,
            categoryId |-> overridden[i].categoryId,
            userCategoryOverride |-> overridden[i].userCategoryOverride,
            withdrawalAmount |-> overridden[i].withdrawalAmount,
            depositAmount |-> overridden[i].depositAmount]] :
          overridden \in {SelectSeq(transactions,
                                    LAMBDA tx : Len(tx.userCategoryOverride) > 0)}})

\* the keys of statementGroups, in the order the Map received them
StatementKeys(transactions) ==
  Only({[k \in 1..Len(firsts) |-> transactions[firsts[k]].statementId] :
          firsts \in {SelectSeq([i \in 1..Len(transactions) |-> i],
                        LAMBDA i : \A j \in 1..(i - 1) :
                          transactions[j].statementId # transactions[i].statementId)}})

\* [...group].sort((a, b) => a.transactionDate - b.transactionDate ||
\* a.serialNo - b.serialNo) on the group of one statement
Ordered(transactions, statementKey) ==
  SortSeq(SelectSeq(transactions, LAMBDA tx : tx.statementId = statementKey),
          LAMBDA a, b : \/ a.transactionDate < b.transactionDate
                        \/ (a.transactionDate = b.transactionDate
                              /\ a.serialNo < b.serialNo))

inferredStatementType(ordered) ==
  IF \E i \in 1..Len(ordered) :
       ordered[i].statementType = "credit" \/ ordered[i].rewardPoints > 0
    THEN "credit" ELSE "debit"

\* the updates the index loop pushes for one statement
GroupUpdates(ordered, recategorized) ==
  Only({[k \in 1..Len(pushed) |->
           [id |-> ordered[pushed[k]].id,
            categoryId |-> recategorized[pushed[k]].categoryId]] :
          pushed \in {SelectSeq([index \in 1..Len(ordered) |-> index],
                        LAMBDA index :
                          /\ Len(recategorized[index].categoryId) > 0
                          /\ Len(ordered[index].userCategoryOverride) = 0
                          /\ recategorized[index].categoryId
                               # ordered[index].categoryId)}})

\* `updates` after the loop over statementGroups.values()
RECURSIVE UpdatesOfGroups(_, _, _)
UpdatesOfGroups(transactions, statementKeys, trainingSet) ==
  IF Len(statementKeys) = 0 THEN <<>>
  ELSE Only({GroupUpdates(ordered,
               processTransactions(
                 [i \in 1..Len(ordered) |->
                    RawTx(ordered[i].remarks, ordered[i].withdrawalAmount,
                          ordered[i].depositAmount)],
                 defaultRules, inferredStatementType(ordered), trainingSet)) :
               ordered \in {Ordered(transactions, Head(statementKeys))}})
         \o UpdatesOfGroups(transactions, Tail(statementKeys), trainingSet)

RcInit ==
  /\ \E raws \in [1..MaxStored -> RcRawPool] :
       /\ rcDb = [id \in 1..MaxStored |-> Stored(id, raws[id], "food")]
       /\ rcSeen = list([id \in 1..MaxStored |-> Stored(id, raws[id], "food")])
  /\ rcRunning = FALSE
  /\ rcUpdates = <<>>
  /\ rcStart = 0
  /\ rcUpdatedCount = 0
  /\ rcRuns = 0
  /\ rcEdits = 0
  /\ CatIdle /\ HbIdle /\ PtIdle /\ PsIdle /\ RgIdle /\ StIdle /\ DpIdle /\ MkIdle /\ EmIdle /\ ImIdle

\* the user picks a category for a transaction: handleCategoryChange, updateCategory
UpdateCategory ==
  /\ rcEdits < MaxEdits
  /\ \E id \in DOMAIN rcDb, categoryId \in RcOverridePool :
       rcDb' = [rcDb EXCEPT ![id].userCategoryOverride = categoryId]
  /\ rcEdits' = rcEdits + 1
  /\ UNCHANGED <<rcSeen, rcRunning, rcUpdates, rcStart, rcUpdatedCount, rcRuns,
                 catVars, hbVars, ptVars, psVars, rgVars, stVars, dpVars,
                 mkVars, emVars, imVars>>

\* the user deletes a statement: statements.remove deletes its transactions
RemoveStatement ==
  /\ \E statementId \in {rcDb[id].statementId : id \in DOMAIN rcDb} :
       rcDb' = [id \in {id \in DOMAIN rcDb : rcDb[id].statementId # statementId} |->
                  rcDb[id]]
  /\ UNCHANGED <<rcSeen, rcRunning, rcUpdates, rcStart, rcUpdatedCount, rcRuns,
                 rcEdits, catVars, hbVars, ptVars, psVars, rgVars, stVars,
                 dpVars, mkVars, emVars, imVars>>

\* the reactive query delivers the table and the page renders again
RefreshTransactions ==
  /\ rcSeen # list(rcDb)
  /\ rcSeen' = list(rcDb)
  /\ UNCHANGED <<rcDb, rcRunning, rcUpdates, rcStart, rcUpdatedCount, rcRuns,
                 rcEdits, catVars, hbVars, ptVars, psVars, rgVars, stVars,
                 dpVars, mkVars, emVars, imVars>>

\* handleRecategorizeAll up to its first await: `updates` from the rendered array
StartRecategorize ==
  /\ ~rcRunning
  /\ rcRuns < MaxRuns
  /\ Len(rcSeen) > 0
  /\ rcRunning' = TRUE
  /\ rcUpdates' = UpdatesOfGroups(rcSeen, StatementKeys(rcSeen), TrainingSet(rcSeen))
  /\ rcStart' = 0
  /\ rcUpdatedCount' = 0
  /\ rcRuns' = rcRuns + 1
  /\ UNCHANGED <<rcDb, rcSeen, rcEdits, catVars, hbVars, ptVars, psVars, rgVars,
                 stVars, dpVars, mkVars, emVars, imVars>>

\* one iteration of the chunk loop: the mutation runs on the table as it is now
SendChunk ==
  /\ rcRunning
  /\ rcStart < Len(rcUpdates)
  /\ \E result \in {batchUpdateCategoryIds(rcDb,
                      SubSeq(rcUpdates, rcStart + 1,
                             Min(rcStart + batchSize, Len(rcUpdates))))} :
       /\ rcDb' = result.db
       /\ rcUpdatedCount' = rcUpdatedCount + result.updated
  /\ rcStart' = rcStart + batchSize
  /\ UNCHANGED <<rcSeen, rcRunning, rcUpdates, rcRuns, rcEdits, catVars, hbVars, ptVars, psVars, rgVars,
                 stVars, dpVars, mkVars, emVars, imVars>>

\* the chunk loop is over: alert, setIsRecategorizing(false)
FinishRecategorize ==
  /\ rcRunning
  /\ rcStart >= Len(rcUpdates)
  /\ rcRunning' = FALSE
  /\ rcUpdates' = <<>>
  /\ rcStart' = 0
  /\ rcUpdatedCount' = 0
  /\ UNCHANGED <<rcDb, rcSeen, rcRuns, rcEdits, catVars, hbVars, ptVars, psVars, rgVars,
                 stVars, dpVars, mkVars, emVars, imVars>>

RcNext ==
  \/ UpdateCategory
  \/ RemoveStatement
  \/ RefreshTransactions
  \/ StartRecategorize
  \/ SendChunk
  \/ FinishRecategorize

SpecRecat == RcInit /\ [][RcNext]_vars

(***************************************************************************)
(* lib/parser: amounts, in hundredths                                      *)
(***************************************************************************)
\* a value that may be undefined
undefined == [defined |-> FALSE, value |-> 0]
Defined(value) == [defined |-> TRUE, value |-> value]

\* a spreadsheet cell: a number, or text ("" for an empty cell)
NumberCell(number) == [isNumber |-> TRUE, number |-> number, text |-> ""]
TextCell(text) == [isNumber |-> FALSE, number |-> 0, text |-> text]

\* the length of the run of decimal digits a string starts with
RECURSIVE DigitRun(_)
DigitRun(s) ==
  IF Len(s) > 0 /\ CharAt(s, 1) \in DigitChars
    THEN 1 + DigitRun(SubSeq(s, 2, Len(s))) ELSE 0

\* the number a string of decimal digits denotes
RECURSIVE DigitsValue(_)
DigitsValue(s) ==
  IF Len(s) = 0 THEN 0
  ELSE 10 * DigitsValue(SubSeq(s, 1, Len(s) - 1))
         + (CHOOSE d \in 0..9 : CharAt(DigitAlphabet, d + 1) = CharAt(s, Len(s)))

\* parseFloat on text without a sign: digits, then "." and digits; NaN is
\* undefined. The texts of the pools have at most two decimals and no exponent.
UnsignedFloat(s, intLen) ==
  Only({IF intLen = 0 /\ fracLen = 0 THEN undefined
        ELSE Defined(100 * DigitsValue(SubSeq(s, 1, intLen))
                       + DigitsValue(SubSeq(SubSeq(s, intLen + 2, intLen + 1 + fracLen)
                                              \o "00", 1, 2))) :
          fracLen \in {IF Len(s) > intLen /\ CharAt(s, intLen + 1) = "."
                         THEN DigitRun(SubSeq(s, intLen + 2, Len(s))) ELSE 0}})

\* Number.parseFloat
parseFloat(str) ==
  Only({IF StartsWith(s, "-")
          THEN Only({[float EXCEPT !.value = -@] :
                       float \in {UnsignedFloat(SubSeq(s, 2, Len(s)),
                                                DigitRun(SubSeq(s, 2, Len(s))))}})
        ELSE IF StartsWith(s, "+")
          THEN UnsignedFloat(SubSeq(s, 2, Len(s)), DigitRun(SubSeq(s, 2, Len(s))))
        ELSE UnsignedFloat(s, DigitRun(s)) :
          s \in {TrimStart(str)}})

\* xlsParser.parseAmount
parseAmount(value) ==
  IF value.isNumber THEN value.number
  ELSE IF Len(value.text) = 0 THEN 0
  ELSE Only({IF num.defined THEN num.value ELSE 0 :
               num \in {parseFloat(Trim(ReplaceRuns(value.text, {","}, "")))}})

parseNoisyAmount(value) ==
  Only({Only({IF Len(trimmed) >= 2 /\ CharAt(trimmed, 1) = "("
                   /\ CharAt(trimmed, Len(trimmed)) = ")"
                THEN -parsed ELSE parsed :
                parsed \in {parseAmount(TextCell(
                  ReplaceRunsOutside(trimmed, DigitChars \cup {",", ".", "-"}, "")))}}) :
          trimmed \in {Trim(value)}})

almostEqualAmount(a, b) == Abs(a - b) < 1

(***************************************************************************)
(* lib/parser: resolveStatementDateRange, time in days                     *)
(***************************************************************************)
thresholdDays == 120

\* a Date, null, or an Invalid Date
DateAt(time) == [kind |-> "valid", time |-> time]
NoDates == {[kind |-> "null", time |-> 0], [kind |-> "invalid", time |-> 0]}

isValidDate(date) == date.kind = "valid"

\* Math.abs(a.getTime() - b.getTime()) >= thresholdMs
BeyondThreshold_Inclusive(a, b) == Abs(a - b) >= thresholdDays

\* Math.abs(a.getTime() - b.getTime()) > thresholdMs
BeyondThreshold(a, b) == Abs(a - b) > thresholdDays

Range(dateFrom, dateTo) == [dateFrom |-> dateFrom, dateTo |-> dateTo]

\* the return without the test dateFrom > dateTo
Upright_Unguarded(dateFrom, dateTo, minTxDate, maxTxDate) == Range(dateFrom, dateTo)

\* if (dateFrom > dateTo) return { dateFrom: minTxDate, dateTo: maxTxDate }
Upright(dateFrom, dateTo, minTxDate, maxTxDate) ==
  IF dateFrom > dateTo THEN Range(minTxDate, maxTxDate) ELSE Range(dateFrom, dateTo)

\* the branch with transaction times
ResolvedAgainst(periodFrom, periodTo, minTxDate, maxTxDate) ==
  Upright(IF isValidDate(periodFrom) /\ ~BeyondThreshold(periodFrom.time, minTxDate)
            THEN periodFrom.time ELSE minTxDate,
          IF isValidDate(periodTo) /\ ~BeyondThreshold(periodTo.time, maxTxDate)
            THEN periodTo.time ELSE maxTxDate,
          minTxDate, maxTxDate)

\* the transaction dates that are dates with a finite time
TxTimes(txDates) ==
  {txDates[i].time : i \in {i \in 1..Len(txDates) : isValidDate(txDates[i])}}

resolveStatementDateRange(periodFrom, periodTo, txDates, now) ==
  \* the clock and the txTimes are bound once, as the constants of the code are
  Only({
    IF txTimes = {}
      THEN Only({IF dateFrom <= dateTo THEN Range(dateFrom, dateTo)
                 ELSE Range(dateTo, dateFrom) :
                   dateFrom \in {IF isValidDate(periodFrom) THEN periodFrom.time ELSE now},
                   dateTo \in {IF isValidDate(periodTo) THEN periodTo.time
                               ELSE IF isValidDate(periodFrom) THEN periodFrom.time
                               ELSE now}})
      ELSE ResolvedAgainst(periodFrom, periodTo,
                           CHOOSE t \in txTimes : \A u \in txTimes : t <= u,
                           CHOOSE t \in txTimes : \A u \in txTimes : t >= u) :
      txTimes \in {TxTimes(txDates)}})

(***************************************************************************)
(* lib/parser: dates.  A time is in days since 1 January 1970.             *)
(***************************************************************************)
InvalidDate == [kind |-> "invalid", time |-> 0]

\* Number.parseInt(text, 10) on text without a sign; NaN is undefined
parseInt(text) ==
  Only({IF digits = 0 THEN undefined
        ELSE Defined(DigitsValue(SubSeq(TrimStart(text), 1, digits))) :
          digits \in {DigitRun(TrimStart(text))}})

\* new Date(year, month - 1, day) of the three parts after parseInt: a year of
\* 0..99 is 1900 + year, a month or a day outside its range carries over, and
\* a part that is NaN gives an Invalid Date
DateOfParts(dayText, monthText, yearText) ==
  LET day == parseInt(dayText)
      month == parseInt(monthText)
      year == parseInt(yearText)
      monthIndex == month.value - 1
      y == (IF year.value \in 0..99 THEN 1900 + year.value ELSE year.value)
             + monthIndex \div 12 - (IF (monthIndex % 12) < 2 THEN 1 ELSE 0)
      m == ((monthIndex % 12) + 10) % 12
  IN  IF day.defined /\ month.defined /\ year.defined
        THEN DateAt(365 * y + y \div 4 - y \div 100 + y \div 400
                      + (153 * m + 2) \div 5 + day.value - 719469)
        ELSE InvalidDate

\* xlsParser.parseIndianDate, `now` being what new Date() reads.  Of the texts
\* of the pools, those without three parts are no date to new Date(dateStr).
parseIndianDate(dateStr, now) ==
  IF Len(dateStr) = 0 THEN DateAt(now)
  ELSE Only({IF Len(parts) = 3 THEN DateOfParts(parts[1], parts[2], parts[3])
             ELSE InvalidDate :
               parts \in {SplitOn(Trim(dateStr), {"/"})}})

\* parseDashedIndianDate: new Date(dateStr) reads DD/MM/YYYY as month, day, year
parseDashedIndianDate(dateStr) ==
  Only({
    IF Len(parts) = 3 THEN DateOfParts(parts[1], parts[2], parts[3])
    ELSE Only({IF /\ Len(slashed) = 3
                  /\ parseInt(slashed[1]).value \in 1..12
                  /\ parseInt(slashed[2]).value \in 1..31
                 THEN DateOfParts(slashed[2], slashed[1], slashed[3])
                 ELSE InvalidDate :
                   slashed \in {SplitOn(Trim(dateStr), {"/"})}}) :
      parts \in {SplitOn(Trim(dateStr), {"-"})}})

\* now, at the two moments a run may read the clock
ClockPool == {19900, 20300}

(***************************************************************************)
(* lib/parser: the debit PDF, the debit spreadsheet and the card PDF       *)
(***************************************************************************)
\* what extractDateAtStart, the join of the remark parts and
\* extractTrailingNumericAmounts find in a block
Block(dateText, rawRemarks, amountTexts) ==
  [dateText |-> dateText, rawRemarks |-> rawRemarks, amountTexts |-> amountTexts]

\* a B/F row, both columns agreeing, the columns swapped, neither order
\* agreeing, a balance that did not move, an amount in parentheses, a block
\* with one column, a lone amount, and a B/F row with the deposit after it
DebitBlockPool ==
  { Block("01-04-2024", "B/F", <<"1,000.00">>),
    Block("02-04-2024", "UPI/ZOMATO/abc@bank", <<"100.00", "0.00", "1,100.00">>),
    Block("02-04-24", "UPI/ZOMATO/abc@bank", <<"0.00", "100.00", "1,100.00">>),
    Block("02/04/2024", "NEFT SALARY", <<"100.00", "100.00", "1,100.00">>),
    Block("02-04-2024", "UPI/ZOMATO/abc@bank", <<"100.00", "0.00", "1,000.00">>),
    Block("02-04-2024", "UPI/ZOMATO/abc@bank", <<"(100.00)", "0.00", "1,000.00">>),
    Block("02-04-2024", "UPI/ZOMATO/abc@bank", <<"100.00", "(100.00)">>),
    Block("02-04-2024", "UPI/ZOMATO/abc@bank", <<"1,100.00">>),
    Block("01-04-2024", "B/F", <<"4900.00">>),
    Block("03-04-2024", "UPI/SWIGGY/xyz@bank", <<"300.00", "0.00", "5200.00">>) }

\* /^B\/F$/i.test(rawRemarks) || /\bB\/F\b/i.test(rawRemarks)
IsOpeningRow(rawRemarks) == BoundaryRegexTest(rawRemarks, "B/F")

RECURSIVE Join(_, _)
\* Array.prototype.join
Join(seq, separator) ==
  IF Len(seq) = 0 THEN ""
  ELSE IF Len(seq) = 1 THEN seq[1]
  ELSE seq[1] \o separator \o Join(Tail(seq), separator)

cleanDebitParticularSegment(segment, index) ==
  LET suffixTokens == {"co", "ltd", "pvt", "llp", "inc", "bank", "mart"}
      IsAlpha(token) ==
        Len(token) > 0 /\ CharsOutside(token, LowerChars \cup UpperChars) = {}
      \* the while loop, from the i-th token on
      RECURSIVE Joined(_, _)
      Joined(tokens, i) ==
        IF i >= Len(tokens) THEN tokens
        ELSE IF ~(IsAlpha(tokens[i]) /\ IsAlpha(tokens[i + 1]))
          THEN Joined(tokens, i + 1)
        ELSE IF \/ Len(tokens[i]) = 1
                \/ Len(tokens[i + 1]) = 1
                \/ /\ Len(tokens[i]) >= 3
                   /\ Len(tokens[i + 1]) <= 2
                   /\ ToLowerCase(tokens[i + 1]) \notin suffixTokens
          THEN Joined(SubSeq(tokens, 1, i - 1) \o <<tokens[i] \o tokens[i + 1]>>
                        \o SubSeq(tokens, i + 2, Len(tokens)), i)
        ELSE Joined(tokens, i + 1)
      \* .replace(/\s+([.,@_-])/g, "$1").replace(/([.,@_-])\s+/g, "$1") on text
      \* whose blanks are single
      RECURSIVE Glued(_, _)
      Glued(s, i) ==
        IF i > Len(s) THEN ""
        ELSE (IF /\ CharAt(s, i) \in WhiteSpace
                 /\ \/ i < Len(s) /\ CharAt(s, i + 1) \in {".", ",", "@", "_", "-"}
                    \/ i > 1 /\ CharAt(s, i - 1) \in {".", ",", "@", "_", "-"}
                THEN "" ELSE CharAt(s, i)) \o Glued(s, i + 1)
      trimmed == Trim(ReplaceRuns(segment, WhiteSpace, " "))
  IN  IF Len(trimmed) = 0 THEN ""
      ELSE IF index # 1 THEN ReplaceRuns(trimmed, WhiteSpace, "")
      ELSE Trim(Glued(Join(Joined(FilterNonEmpty(SplitOn(trimmed, WhiteSpace)), 1),
                           " "), 1))

summarizeDebitParticulars(rawRemarks) ==
  LET \* .replace(/\s+/g, " ").replace(/\s*\/\s*/g, "/").trim()
      normalized ==
        Trim(Join(TrimAll(SplitOn(ReplaceRuns(rawRemarks, WhiteSpace, " "), {"/"})),
                  "/"))
      segments == FilterNonEmpty(TrimAll(SplitOn(normalized, {"/"})))
  IN  IF Len(normalized) = 0 THEN "Transaction"
      ELSE IF IsOpeningRow(normalized) THEN "B/F"
      ELSE IF ~Includes(normalized, "/") THEN normalized
      ELSE IF Len(segments) >= 3
        THEN cleanDebitParticularSegment(segments[1], 0) \o "/"
               \o cleanDebitParticularSegment(segments[2], 1) \o "/"
               \o cleanDebitParticularSegment(segments[3], 2)
      ELSE OrElse(Join(segments, "/"), normalized)

\* date, remarks and isOpeningRow of parseDebitPdfTransactionBlock
BlockFacts(block) ==
  [date |-> parseDashedIndianDate(block.dateText),
   remarks |-> summarizeDebitParticulars(block.rawRemarks),
   isOpeningRow |-> IsOpeningRow(block.rawRemarks)]

\* BlockFacts on the blocks of the pool, evaluated once
BlockMemo == [block \in DebitBlockPool |-> BlockFacts(block)]

null == [isNull |-> TRUE]

parseDebitPdfTransactionBlock(block) ==
  Only({
    IF n = 0 THEN null
    ELSE IF n >= 3
      THEN [isNull |-> FALSE, date |-> facts.date, remarks |-> facts.remarks,
            balance |-> parseNoisyAmount(block.amountTexts[n]),
            amount |-> undefined,
            depositAmount |-> Defined(parseNoisyAmount(block.amountTexts[n - 2])),
            withdrawalAmount |-> Defined(parseNoisyAmount(block.amountTexts[n - 1])),
            isOpeningRow |-> facts.isOpeningRow]
    ELSE IF n >= 2
      THEN [isNull |-> FALSE, date |-> facts.date, remarks |-> facts.remarks,
            balance |-> parseNoisyAmount(block.amountTexts[n]),
            amount |-> Defined(parseNoisyAmount(block.amountTexts[n - 1])),
            depositAmount |-> undefined, withdrawalAmount |-> undefined,
            isOpeningRow |-> facts.isOpeningRow]
    ELSE IF facts.isOpeningRow
      THEN [isNull |-> FALSE, date |-> facts.date, remarks |-> facts.remarks,
            balance |-> parseNoisyAmount(block.amountTexts[n]),
            amount |-> undefined, depositAmount |-> undefined,
            withdrawalAmount |-> undefined, isOpeningRow |-> TRUE]
    ELSE null :
      n \in {Len(block.amountTexts)},
      facts \in {Memoized(BlockMemo, block, BlockFacts(block))}})

Amounts(depositAmount, withdrawalAmount) ==
  [depositAmount |-> depositAmount, withdrawalAmount |-> withdrawalAmount]

\* finalizeCurrentBlock: depositAmount and withdrawalAmount after the block
\* with both columns was checked against the balances
Reconciled(previousBalance, balance, depositAmount, withdrawalAmount) ==
  IF ~(previousBalance.defined /\ depositAmount.defined /\ withdrawalAmount.defined)
    THEN Amounts(depositAmount, withdrawalAmount)
  ELSE IF almostEqualAmount(
            previousBalance.value + depositAmount.value - withdrawalAmount.value, balance)
    THEN Amounts(depositAmount, withdrawalAmount)
  ELSE IF almostEqualAmount(
            previousBalance.value + withdrawalAmount.value - depositAmount.value, balance)
    THEN Amounts(withdrawalAmount, depositAmount)
  ELSE IF Abs(balance - previousBalance.value) > 1
    THEN IF balance - previousBalance.value > 0
           THEN Amounts(Defined(Abs(balance - previousBalance.value)), Defined(0))
           ELSE Amounts(Defined(0), Defined(Abs(balance - previousBalance.value)))
  ELSE Amounts(depositAmount, withdrawalAmount)

\* finalizeCurrentBlock: singleAmount
SingleAmount(previousBalance, balance, amount) ==
  IF /\ previousBalance.defined
     /\ amount.defined
     /\ Abs(balance - previousBalance.value) > 1
     /\ ~almostEqualAmount(Abs(balance - previousBalance.value), Abs(amount.value))
    THEN Defined(Abs(balance - previousBalance.value))
    ELSE amount

\* a single amount that goes to the withdrawals whatever the balances say
Assigned_AlwaysWithdrawal(previousBalance, balance, amounts, singleAmount) ==
  IF ~(~amounts.depositAmount.defined /\ ~amounts.withdrawalAmount.defined
         /\ singleAmount.defined)
    THEN amounts
  ELSE Amounts(Defined(0), singleAmount)

\* finalizeCurrentBlock: the column a single amount goes to
Assigned(previousBalance, balance, amounts, singleAmount) ==
  IF ~(~amounts.depositAmount.defined /\ ~amounts.withdrawalAmount.defined
         /\ singleAmount.defined)
    THEN amounts
  ELSE IF previousBalance.defined /\ balance - previousBalance.value > 0
    THEN Amounts(singleAmount, Defined(0))
  ELSE IF previousBalance.defined /\ balance - previousBalance.value < 0
    THEN Amounts(Defined(0), singleAmount)
  ELSE IF previousBalance.defined /\ balance >= previousBalance.value
    THEN Amounts(singleAmount, Defined(0))
  ELSE Amounts(Defined(0), singleAmount)

\* depositAmount ?? 0
OrZero(value) == IF value.defined THEN value.value ELSE 0

\* finalizeCurrentBlock on a block that is not the opening row: deposit and
\* withdrawal
Finalized(previousBalance, parsed) ==
  Assigned(previousBalance, parsed.balance,
           Reconciled(previousBalance, parsed.balance, parsed.depositAmount,
                      parsed.withdrawalAmount),
           SingleAmount(previousBalance, parsed.balance, parsed.amount))

\* the early returns of finalizeCurrentBlock that count the block as well
Discarded_CountingTheBlock(parser) == [parser EXCEPT !.serialNo = @ + 1]

\* the early returns of finalizeCurrentBlock: no block, nothing parsed, or a
\* deposit and a withdrawal of 0
Discarded(parser) == parser

\* finalizeCurrentBlock on a block: previousBalance, openingBalance, serialNo
\* and transactions after it
finalizeCurrentBlock(parser, block) ==
  Only({
    IF parsed.isNull THEN Discarded(parser)
    ELSE IF parsed.isOpeningRow
      THEN [parser EXCEPT !.openingBalance = IF @.defined THEN @
                                             ELSE Defined(parsed.balance),
                          !.previousBalance = Defined(parsed.balance)]
    ELSE Only({
      Only({
        IF deposit = 0 /\ withdrawal = 0 THEN Discarded(parser)
        ELSE [openingBalance |->
                IF parser.openingBalance.defined THEN parser.openingBalance
                ELSE Defined(parsed.balance - deposit + withdrawal),
              transactions |->
                Append(parser.transactions,
                       [serialNo |-> parser.serialNo,
                        transactionDate |-> parsed.date,
                        remarks |-> parsed.remarks,
                        withdrawalAmount |-> withdrawal,
                        depositAmount |-> deposit,
                        balance |-> parsed.balance]),
              serialNo |-> parser.serialNo + 1,
              previousBalance |-> Defined(parsed.balance)] :
          deposit \in {OrZero(amounts.depositAmount)},
          withdrawal \in {OrZero(amounts.withdrawalAmount)}}) :
        amounts \in {Finalized(parser.previousBalance, parsed)}}) :
      parsed \in {parseDebitPdfTransactionBlock(block)}})

\* a row of the sheet: the cells the loop reads
Row(serialNo, transactionDate, remarks, withdrawal, deposit, balance) ==
  [serialNo |-> serialNo, transactionDate |-> transactionDate, remarks |-> remarks,
   withdrawal |-> withdrawal, deposit |-> deposit, balance |-> balance]

\* numeric cells, text cells with a negative amount and no date, a numeric
\* negative amount and a date that is none, a row without a serial number, the
\* legend, a row without remarks, and a row whose remarks name a note
RowPool ==
  { Row(NumberCell(100), "15/01/2024", "UPI/ZOMATO/abc@bank", NumberCell(25000),
        TextCell(""), NumberCell(100000)),
    Row(TextCell("2"), "", "NEFT REVERSAL", TextCell("-250.00"), TextCell("0"),
        TextCell("1,000.00")),
    Row(NumberCell(300), "n/a", "ADJUSTMENT", NumberCell(0), NumberCell(-25000),
        NumberCell(75000)),
    Row(TextCell("Total"), "", "", TextCell(""), TextCell(""), TextCell("")),
    Row(NumberCell(400), "", "", TextCell("Legends: note"), TextCell(""),
        TextCell("")),
    Row(NumberCell(500), "17/01/2024", "", NumberCell(100), NumberCell(0),
        NumberCell(0)),
    Row(NumberCell(600), "18/01/2024", "Legends: note", NumberCell(5000), TextCell(""),
        NumberCell(95000)) }

\* String(row[5 + columnOffset] || "").toLowerCase() names the legend
IsLegendRow(row) ==
  /\ ~row.withdrawal.isNumber
  /\ \E remarksCell \in {ToLowerCase(row.withdrawal.text)} :
       Includes(remarksCell, "legend") \/ Includes(remarksCell, "note")

\* what the regular expression of parseCreditTransactionLine captures in a
\* line it matches: groups 1, 2, 3, 4, 7 and 8
CreditLine(dateToken, serialToken, remarksRaw, rewardPointsToken, amountToken, suffix) ==
  [matches |-> TRUE, dateToken |-> dateToken, serialToken |-> serialToken,
   remarksRaw |-> remarksRaw, rewardPointsToken |-> rewardPointsToken,
   amountToken |-> amountToken, suffix |-> suffix]

\* a line the regular expression does not match
Unmatched ==
  [matches |-> FALSE, dateToken |-> "", serialToken |-> "", remarksRaw |-> "",
   rewardPointsToken |-> "", amountToken |-> "", suffix |-> ""]

\* a purchase, a credit, an amount of 0 under a serial number of 0, a purchase
\* whose narration has the word CR, and a line that is no transaction
CreditLinePool ==
  { CreditLine("05/04/2024", "10000001", "AMAZON PAY INDIA", "24", "1,234.50", ""),
    CreditLine("06/04/2024", "10000002", "PAYMENT RECEIVED", "0", "250.00", "CR"),
    CreditLine("07/04/2024", "00000000", "FUEL SURCHARGE", "0", "0.00", ""),
    CreditLine("08/04/2024", "10000004", "IRCTC CR FACILITY", "9", "450.00", ""),
    Unmatched }

\* line.replace(/\s+/g, " ").trim() of a matched line
NormalizedLine(line) ==
  Join(FilterNonEmpty(<<line.dateToken, line.serialToken, line.remarksRaw,
                        line.rewardPointsToken, line.amountToken, line.suffix>>), " ")

\* /\sCR(?:\s|$)/i.test(normalizedLine)
IsCredit(normalizedLine) ==
  \E upper \in {ToUpperCase(normalizedLine)} :
    \E p \in 1..(Len(upper) - 2) :
      /\ CharAt(upper, p) \in WhiteSpace
      /\ SubSeq(upper, p + 1, p + 2) = "CR"
      /\ (p + 2 = Len(upper) \/ CharAt(upper, p + 3) \in WhiteSpace)

\* parseCreditTransactionLine; the lines of the pool carry no trailing details
parseCreditTransactionLine(line, fallbackSerial, now) ==
  IF ~line.matches THEN null
  ELSE Only({
    IF Len(remarks) = 0 \/ ~amount.defined THEN null
    ELSE [serialNo |-> IF serialNo.defined /\ serialNo.value # 0 THEN serialNo.value
                       ELSE fallbackSerial,
          transactionDate |-> parseIndianDate(line.dateToken, now),
          remarks |-> remarks,
          withdrawalAmount |-> IF isCredit THEN 0 ELSE amount.value,
          depositAmount |-> IF isCredit THEN amount.value ELSE 0,
          balance |-> 0] :
      serialNo \in {parseInt(line.serialToken)},
      amount \in {parseFloat(ReplaceRuns(line.amountToken, {","}, ""))},
      remarks \in {Trim(line.remarksRaw)},
      isCredit \in {IsCredit(NormalizedLine(line))}})

\* the period a statement declares: none, or January 2024
PeriodPool ==
  { <<[kind |-> "null", time |-> 0], [kind |-> "null", time |-> 0]>>,
    <<DateOfParts("01", "01", "2024"), DateOfParts("31", "01", "2024")>> }

\* transactions.length === 0
NoTransactionsFound_Never(transactions) == FALSE

NoTransactionsFound(transactions) == Len(transactions) = 0

\* tx.transactionDate of each transaction
TransactionDates(transactions) ==
  [i \in 1..Len(transactions) |-> transactions[i].transactionDate]

Running == [kind |-> "running", transactions |-> <<>>, dateFrom |-> 0, dateTo |-> 0]

MaxLines == 3

PsInit ==
  /\ \E parser \in {"debit", "debitPdf", "creditPdf"} :
       /\ psParser = parser
       /\ psInput \in SeqsUpTo(IF parser = "debit" THEN RowPool
                               ELSE IF parser = "debitPdf" THEN DebitBlockPool
                               ELSE CreditLinePool, MaxLines)
  /\ psPeriod \in PeriodPool
  /\ psPos = 0
  /\ psPreviousBalance = undefined
  /\ psOpeningBalance = undefined
  /\ psSerialNo = 1
  /\ psTransactions = <<>>
  /\ psTrace = <<>>
  /\ psOutcome = Running
  /\ CatIdle /\ HbIdle /\ PtIdle /\ RcIdle /\ RgIdle /\ StIdle /\ DpIdle /\ MkIdle /\ EmIdle /\ ImIdle

\* parseICICIDebitStatement: one iteration of the loop over the rows
ParseRow ==
  /\ psParser = "debit"
  /\ psPos < Len(psInput)
  /\ \E row \in {psInput[psPos + 1]}, now \in ClockPool :
       \E serialNo \in {parseAmount(row.serialNo)} :
         IF serialNo <= 0 \/ serialNo % 100 # 0
           THEN psPos' = psPos + 1 /\ UNCHANGED <<psTransactions, psTrace>>
         ELSE IF IsLegendRow(row)
           THEN psPos' = Len(psInput) /\ UNCHANGED <<psTransactions, psTrace>>
         ELSE /\ psPos' = psPos + 1
              /\ \E transaction \in {[serialNo |-> serialNo \div 100,
                                      transactionDate |->
                                        parseIndianDate(row.transactionDate, now),
                                      remarks |-> row.remarks,
                                      withdrawalAmount |-> parseAmount(row.withdrawal),
                                      depositAmount |-> parseAmount(row.deposit),
                                      balance |-> parseAmount(row.balance)]} :
                   IF /\ Len(transaction.remarks) > 0
                      /\ \/ transaction.withdrawalAmount > 0
                         \/ transaction.depositAmount > 0
                         \/ transaction.balance > 0
                     THEN /\ psTransactions' = Append(psTransactions, transaction)
                          /\ psTrace' = Append(psTrace, [block |-> row,
                                                         previousBalance |-> undefined])
                     ELSE UNCHANGED <<psTransactions, psTrace>>
  /\ UNCHANGED <<psParser, psInput, psPeriod, psPreviousBalance, psOpeningBalance,
                 psSerialNo, psOutcome, catVars, hbVars, ptVars, rcVars, rgVars,
                 stVars, dpVars, mkVars, emVars, imVars>>

\* parseICICIDebitPdfStatement: finalizeCurrentBlock on the next block
FinalizeBlock ==
  /\ psParser = "debitPdf"
  /\ psPos < Len(psInput)
  /\ psPos' = psPos + 1
  /\ \E after \in {finalizeCurrentBlock(
                     [previousBalance |-> psPreviousBalance,
                      openingBalance |-> psOpeningBalance,
                      serialNo |-> psSerialNo,
                      transactions |-> psTransactions], psInput[psPos + 1])} :
       /\ psPreviousBalance' = after.previousBalance
       /\ psOpeningBalance' = after.openingBalance
       /\ psSerialNo' = after.serialNo
       /\ psTransactions' = after.transactions
       /\ psTrace' = IF Len(after.transactions) > Len(psTransactions)
                       THEN Append(psTrace, [block |-> psInput[psPos + 1],
                                             previousBalance |-> psPreviousBalance])
                       ELSE psTrace
  /\ UNCHANGED <<psParser, psInput, psPeriod, psOutcome, catVars, hbVars, ptVars,
                 rcVars, rgVars, stVars, dpVars, mkVars, emVars, imVars>>

\* parseICICICreditPdfStatement: parseCreditTransactionLine on the next line,
\* and the filter that drops null
ParseCreditLine ==
  /\ psParser = "creditPdf"
  /\ psPos < Len(psInput)
  /\ psPos' = psPos + 1
  /\ \E now \in ClockPool :
       \E parsed \in {parseCreditTransactionLine(psInput[psPos + 1], psPos + 1, now)} :
         IF parsed = null
           THEN UNCHANGED <<psTransactions, psTrace>>
           ELSE /\ psTransactions' = Append(psTransactions, parsed)
                /\ psTrace' = Append(psTrace, [block |-> psInput[psPos + 1],
                                               previousBalance |-> undefined])
  /\ UNCHANGED <<psParser, psInput, psPeriod, psPreviousBalance, psOpeningBalance,
                 psSerialNo, psOutcome, catVars, hbVars, ptVars, rcVars, rgVars,
                 stVars, dpVars, mkVars, emVars, imVars>>

\* the end of each parser: the error for a statement without transactions, or
\* the ParsedStatement with its resolved period
Finish ==
  /\ psOutcome = Running
  /\ psPos = Len(psInput)
  /\ IF NoTransactionsFound(psTransactions)
       THEN psOutcome' = [Running EXCEPT !.kind = "error"]
       ELSE \E now \in ClockPool :
              \E range \in {resolveStatementDateRange(
                              psPeriod[1], psPeriod[2],
                              TransactionDates(psTransactions), now)} :
                psOutcome' = [kind |-> "statement", transactions |-> psTransactions,
                              dateFrom |-> range.dateFrom, dateTo |-> range.dateTo]
  /\ UNCHANGED <<psParser, psInput, psPeriod, psPos, psPreviousBalance,
                 psOpeningBalance, psSerialNo, psTransactions, psTrace, catVars, hbVars,
                 ptVars, rcVars, rgVars, stVars, dpVars, mkVars, emVars,
                 imVars>>

PsNext == ParseRow \/ FinalizeBlock \/ ParseCreditLine \/ Finish

SpecParse == PsInit /\ [][PsNext]_vars

(***************************************************************************)
(* lib/parser: the lines of the debit PDF                                  *)
(***************************************************************************)
\* the character at a position, "" outside the string
At(s, i) == IF i >= 1 /\ i <= Len(s) THEN CharAt(s, i) ELSE ""

compactLineForMatching(line) == ReplaceRuns(ToLowerCase(line), WhiteSpace, "")

isDebitPdfTransactionHeaderLine(compact) ==
  /\ Includes(compact, "date")
  /\ Includes(compact, "balance")
  /\ \E column \in {"withdraw", "deposit", "particular", "remarks"} :
       Includes(compact, column)

\* \w
WordChars == LowerChars \cup UpperChars \cup DigitChars \cup {"_"}

\* extractDateAtStart on a trimmed line whose date has no blanks inside: two
\* digits, - or /, two digits, - or /, two to four digits, then \b
extractDateAtStart(line) ==
  IF Len(line) < 8 THEN null
  ELSE Only({
    IF /\ \A i \in {1, 2, 4, 5} : CharAt(line, i) \in DigitChars
       /\ \A i \in {3, 6} : CharAt(line, i) \in {"-", "/"}
       /\ yearLength \in 2..4
       /\ At(line, 7 + yearLength) \notin WordChars
      THEN [isNull |-> FALSE, dateText |-> SubSeq(line, 1, 6 + yearLength),
            restText |-> Trim(SubSeq(line, 7 + yearLength, Len(line)))]
      ELSE null :
        yearLength \in {DigitRun(SubSeq(line, 7, Len(line)))}})

\* .replace(/(?<=[before])\s+(?=[after])/g, "") on text whose blanks are
\* single: what it leaves of the characters first..last
RECURSIVE Unspaced(_, _, _, _, _)
Unspaced(s, before, after, first, last) ==
  IF first > last THEN ""
  ELSE IF first = last
    THEN IF /\ CharAt(s, first) \in WhiteSpace
            /\ At(s, first - 1) \in before
            /\ At(s, first + 1) \in after
           THEN "" ELSE CharAt(s, first)
  ELSE Unspaced(s, before, after, first, (first + last) \div 2)
         \o Unspaced(s, before, after, (first + last) \div 2 + 1, last)

\* the length of the run of characters of a class that starts at position i
RECURSIVE RunAt(_, _, _)
RunAt(s, class, i) == IF At(s, i) \in class THEN 1 + RunAt(s, class, i + 1) ELSE 0

\* the length of the match of /-?\(?\d[\d,]*\.\d{2}\)?/ that starts at
\* position p, 0 when there is none
AmountLength(s, p) ==
  Only({
    Only({
      IF /\ run > 0
         /\ At(s, digit) \in DigitChars
         /\ At(s, digit + run) = "."
         /\ At(s, digit + run + 1) \in DigitChars
         /\ At(s, digit + run + 2) \in DigitChars
        THEN (digit - p) + run + 3 + (IF At(s, digit + run + 3) = ")" THEN 1 ELSE 0)
        ELSE 0 :
          run \in {RunAt(s, DigitChars \cup {","}, digit)}}) :
      digit \in {Only({sign + (IF At(s, sign) = "(" THEN 1 ELSE 0) :
                         sign \in {p + (IF At(s, p) = "-" THEN 1 ELSE 0)}})}})

\* normalizedLine.matchAll(/-?\(?\d[\d,]*\.\d{2}\)?/g), from position p on:
\* the match at the first position that has one, then the matches after it
RECURSIVE AmountMatches(_, _)
AmountMatches(s, p) ==
  Only({IF starts = {} THEN <<>>
        ELSE Only({<<[index |-> start, length |-> AmountLength(s, start)]>>
                     \o AmountMatches(s, start + AmountLength(s, start)) :
                       start \in {CHOOSE q \in starts : \A r \in starts : q <= r}}) :
          starts \in {{q \in p..Len(s) : AmountLength(s, q) > 0}}})

\* /^\s*(?:CR|DR)?\s*$/i.test(gap)
IsGap(gap) == ToUpperCase(Trim(gap)) \in {"", "CR", "DR"}

\* the loop over the matches before the k-th: the first match of `contiguous`
RECURSIVE FirstContiguous(_, _, _)
FirstContiguous(s, matches, k) ==
  IF k = 1 THEN 1
  ELSE IF IsGap(SubSeq(s, matches[k - 1].index + matches[k - 1].length,
                       matches[k].index - 1))
    THEN FirstContiguous(s, matches, k - 1)
  ELSE k

\* what extractTrailingNumericAmounts returns for the matches found
TrailingAmounts(normalizedLine, matches) ==
  IF Len(matches) = 0 THEN null
  ELSE Only({
    [isNull |-> FALSE,
     amountTexts |->
       [k \in 1..(Len(matches) - first + 1) |->
          SubSeq(normalizedLine, matches[first + k - 1].index,
                 matches[first + k - 1].index + matches[first + k - 1].length - 1)],
     leadingText |-> Trim(SubSeq(normalizedLine, 1, matches[first].index - 1))] :
      first \in {Max(FirstContiguous(normalizedLine, matches, Len(matches)),
                     Len(matches) - 2)}})

extractTrailingNumericAmounts(line) ==
  Only({TrailingAmounts(normalizedLine, AmountMatches(normalizedLine, 1)) :
          normalizedLine \in
            {Only({Unspaced(once, {",", ".", "-"}, DigitChars, 1, Len(once)) :
                     once \in {Unspaced(line, DigitChars, DigitChars \cup {",", ".", "-"},
                                         1, Len(line))}})}})

\* /[A-Za-z]/.test(line)
HasLetter(line) == \E i \in 1..Len(line) : CharAt(line, i) \in LowerChars \cup UpperChars

isDebitPdfNarrationLine(line) ==
  \E compact \in {compactLineForMatching(line)} :
    /\ \A banner \in {"total", "subtotal", "grandtotal", "openingbalance", "closingbalance",
                      "datemodeparticularsdepositswithdrawalsbalance",
                      "accountrelatedotherinformation"} : ~StartsWith(compact, banner)
    /\ HasLetter(line) \/ Includes(line, "/") \/ Includes(line, "-")

isLikelyNextDebitTransactionPrelude(line) ==
  \E compact \in {compactLineForMatching(line)} :
    /\ Len(compact) >= 3
    /\ \E channel \in {"upi/", "neft", "mmt", "imps", "netbanking", "bil/",
                       "cashwithdrawal", "pos/", "vps/", "atw/"} :
         StartsWith(compact, channel)

\* /^--\d+of\d+--$/.test(compact)
IsPageCounter(compact) ==
  /\ StartsWith(compact, "--")
  /\ \E first \in {RunAt(compact, DigitChars, 3)} :
       /\ first > 0
       /\ SubSeq(compact, 3 + first, 4 + first) = "of"
       /\ \E second \in {RunAt(compact, DigitChars, 5 + first)} :
            /\ second > 0
            /\ SubSeq(compact, 5 + first + second, Len(compact)) = "--"

\* the tests the loop makes on a line, in the order it makes them; totalBalance
\* is 0 unless a line starting with Total ends in amounts
LineFacts(line) ==
  Only({
    [header |-> \/ Includes(compact, "datemodeparticularsdepositswithdrawalsbalance")
                \/ isDebitPdfTransactionHeaderLine(compact),
     dateStart |-> extractDateAtStart(line),
     hasLetter |-> HasLetter(line),
     marker |-> StartsWith(compact, "accountrelatedotherinformation"),
     page |-> \/ StartsWith(compact, "page")
              \/ IsPageCounter(compact)
              \/ Includes(compact, "statementoftransactionsinsavingsaccount"),
     total |-> StartsWith(ToLowerCase(line), "total"),
     totalBalance |->
       IF StartsWith(ToLowerCase(line), "total")
         THEN Only({IF trailing.isNull THEN 0
                    ELSE parseNoisyAmount(trailing.amountTexts[Len(trailing.amountTexts)]) :
                      trailing \in {extractTrailingNumericAmounts(line)}})
         ELSE 0,
     prelude |-> isLikelyNextDebitTransactionPrelude(line),
     narration |-> isDebitPdfNarrationLine(line)] :
      compact \in {compactLineForMatching(line)}})

\* a DebitPdfTransactionBlock, with the numbers of its lines: the date line
\* first, then the trailing lines
DebitPdfTransactionBlock(preludeLines, dateLine, lineNo) ==
  [isNull |-> FALSE, preludeLines |-> preludeLines, dateLine |-> dateLine,
   trailingLines |-> <<>>, lineNos |-> <<lineNo>>]

\* [dateInfo.restText, ...block.trailingLines] trimmed, filtered and joined
BlockBody(restText, trailingLines) ==
  Trim(ReplaceRuns(Join(FilterNonEmpty(TrimAll(<<restText>> \o trailingLines)), " "),
                   WhiteSpace, " "))

\* what parseDebitPdfTransactionBlock reads off the lines of a block: the date
\* text, rawRemarks and the trailing amounts, none when there is nothing to parse
BlockRead(block) ==
  Only({
    IF dateInfo.isNull THEN Block("", "", <<>>)
    ELSE Only({
      IF amountInfo.isNull THEN Block(dateInfo.dateText, "", <<>>)
      ELSE Block(dateInfo.dateText,
                 OrElse(Trim(ReplaceRuns(
                          Join(FilterNonEmpty(TrimAll(
                                 Append(block.preludeLines, amountInfo.leadingText))), " "),
                          WhiteSpace, " ")),
                        "Transaction"),
                 amountInfo.amountTexts) :
        amountInfo \in {extractTrailingNumericAmounts(
                          BlockBody(dateInfo.restText, block.trailingLines))}}) :
      dateInfo \in {extractDateAtStart(block.dateLine)}})

blockHasParseableAmount(block) == Len(BlockRead(block).amountTexts) >= 2

\* the header, a B/F row, a row with both columns, a row with one amount, the
\* narration that precedes a row, a Total line, a narration that names an
\* amount, the marker that ends the section, a page line, a row whose
\* columns are 0, a row without amounts, and a B/F row followed by a row
\* whose amount is 0 and whose balance is 0.01 more (2.01 - 2 is not above
\* 0.01 in double precision)
LinePool ==
  { "DATE MODE PARTICULARS DEPOSITS WITHDRAWALS BALANCE",
    "01-04-2024 B/F 4,900.00",
    "02-04-2024 UPI/SWIGGY/xyz@bank 300.00 0.00 5,200.00",
    "03-04-2024 200.00 5,000.00",
    "UPI/ZOMATO/order",
    "Total: 300.00 200.00 5,000.00",
    "Int.Pd 12.50",
    "Account Related Other Information",
    "Page 1 of 2",
    "04-04-2024 CHARGES 0.00 0.00 5,000.00",
    "05-04-2024 NEFT-REF",
    "05-04-2024 B/F 2.00",
    "06-04-2024 0.00 2.01" }

\* LineFacts on the lines of the pool, evaluated once
LineMemo == [line \in LinePool |-> LineFacts(line)]

\* pendingPrelude.push(line), the oldest line dropped beyond two
Pushed(pendingPrelude, line) ==
  IF Len(pendingPrelude) >= 2 THEN Append(Tail(pendingPrelude), line)
  ELSE Append(pendingPrelude, line)

\* finalizeCurrentBlock() on currentBlock, which may be null: the parser after
\* it, and the blocks finalized so far, each with what was read off it and
\* whether it was pushed
Finalizing(parser, blocks, currentBlock) ==
  IF currentBlock.isNull THEN [parser |-> parser, blocks |-> blocks]
  ELSE Only({
    Only({
      [parser |-> after,
       blocks |-> Append(blocks,
                         [block |-> read, lineNos |-> currentBlock.lineNos,
                          emitted |-> Len(after.transactions) > Len(parser.transactions)])] :
        after \in {finalizeCurrentBlock(parser, read)}}) :
      read \in {BlockRead(currentBlock)}})

\* openingBalance of the ParsedStatement
OpeningBalanceOf(parser) ==
  IF parser.openingBalance.defined \/ Len(parser.transactions) = 0
    THEN parser.openingBalance
  ELSE Defined(parser.transactions[1].balance - parser.transactions[1].depositAmount
                 + parser.transactions[1].withdrawalAmount)

\* closingBalance of the ParsedStatement
ClosingBalanceOf(parser, totalBalanceLines) ==
  IF Len(totalBalanceLines) > 0
    THEN Defined(totalBalanceLines[Len(totalBalanceLines)])
  ELSE parser.previousBalance

MaxPdfLines == 3

DpInit ==
  /\ dpLines = <<>>
  /\ dpInTransactionSection = FALSE
  /\ dpPendingPrelude = <<>>
  /\ dpCurrentBlock = null
  /\ dpParser = [previousBalance |-> undefined, openingBalance |-> undefined,
                 serialNo |-> 1, transactions |-> <<>>]
  /\ dpTotalBalanceLines = <<>>
  /\ dpBlocks = <<>>
  /\ dpOutcome = [kind |-> "running"]
  /\ CatIdle /\ HbIdle /\ PtIdle /\ RcIdle /\ PsIdle /\ RgIdle /\ StIdle /\ MkIdle /\ EmIdle /\ ImIdle

\* one iteration of `for (const line of lines)`
ReadLine ==
  /\ dpOutcome.kind = "running"
  /\ Len(dpLines) < MaxPdfLines
  /\ \E line \in LinePool :
       \E facts \in {Memoized(LineMemo, line, LineFacts(line))} :
         /\ dpLines' = Append(dpLines, line)
         /\ IF facts.header
              THEN /\ dpInTransactionSection' = TRUE
                   /\ dpPendingPrelude' = <<>>
                   /\ UNCHANGED <<dpCurrentBlock, dpParser, dpTotalBalanceLines, dpBlocks,
                                  dpOutcome>>
            ELSE IF ~dpInTransactionSection
              THEN IF ~facts.dateStart.isNull
                     THEN /\ dpInTransactionSection' = TRUE
                          /\ dpCurrentBlock' =
                               DebitPdfTransactionBlock(dpPendingPrelude, line, Len(dpLines) + 1)
                          /\ dpPendingPrelude' = <<>>
                          /\ UNCHANGED <<dpParser, dpTotalBalanceLines, dpBlocks, dpOutcome>>
                     ELSE /\ dpPendingPrelude' = IF facts.hasLetter
                                                   THEN Pushed(dpPendingPrelude, line)
                                                   ELSE dpPendingPrelude
                          /\ UNCHANGED <<dpInTransactionSection, dpCurrentBlock, dpParser,
                                         dpTotalBalanceLines, dpBlocks, dpOutcome>>
            ELSE IF facts.marker
              THEN /\ \E after \in {Finalizing(dpParser, dpBlocks, dpCurrentBlock)} :
                        /\ dpParser' = after.parser
                        /\ dpBlocks' = after.blocks
                   /\ dpCurrentBlock' = null
                   /\ dpOutcome' = [kind |-> "break"]
                   /\ UNCHANGED <<dpInTransactionSection, dpPendingPrelude,
                                  dpTotalBalanceLines>>
            ELSE IF facts.page
              THEN UNCHANGED <<dpInTransactionSection, dpPendingPrelude, dpCurrentBlock,
                               dpParser, dpTotalBalanceLines, dpBlocks, dpOutcome>>
            ELSE IF facts.total
              THEN /\ dpTotalBalanceLines' = IF facts.totalBalance > 0
                                               THEN Append(dpTotalBalanceLines, facts.totalBalance)
                                               ELSE dpTotalBalanceLines
                   /\ UNCHANGED <<dpInTransactionSection, dpPendingPrelude, dpCurrentBlock,
                                  dpParser, dpBlocks, dpOutcome>>
            ELSE IF ~facts.dateStart.isNull
              THEN /\ \E after \in {Finalizing(dpParser, dpBlocks, dpCurrentBlock)} :
                        /\ dpParser' = after.parser
                        /\ dpBlocks' = after.blocks
                   /\ dpCurrentBlock' =
                        DebitPdfTransactionBlock(dpPendingPrelude, line, Len(dpLines) + 1)
                   /\ dpPendingPrelude' = <<>>
                   /\ UNCHANGED <<dpInTransactionSection, dpTotalBalanceLines, dpOutcome>>
            ELSE IF ~dpCurrentBlock.isNull
              THEN IF facts.prelude /\ blockHasParseableAmount(dpCurrentBlock)
                     THEN /\ dpPendingPrelude' = Pushed(dpPendingPrelude, line)
                          /\ UNCHANGED <<dpInTransactionSection, dpCurrentBlock, dpParser,
                                         dpTotalBalanceLines, dpBlocks, dpOutcome>>
                     ELSE /\ dpCurrentBlock' =
                               IF facts.narration
                                 THEN [dpCurrentBlock EXCEPT
                                         !.trailingLines = Append(@, line),
                                         !.lineNos = Append(@, Len(dpLines) + 1)]
                                 ELSE dpCurrentBlock
                          /\ UNCHANGED <<dpInTransactionSection, dpPendingPrelude, dpParser,
                                         dpTotalBalanceLines, dpBlocks, dpOutcome>>
            ELSE /\ dpPendingPrelude' = IF facts.hasLetter
                                          THEN Pushed(dpPendingPrelude, line)
                                          ELSE dpPendingPrelude
                 /\ UNCHANGED <<dpInTransactionSection, dpCurrentBlock, dpParser,
                                dpTotalBalanceLines, dpBlocks, dpOutcome>>
  /\ UNCHANGED <<catVars, hbVars, ptVars, rcVars, psVars, rgVars, stVars,
                 mkVars, emVars, imVars>>

\* after the loop: the last finalizeCurrentBlock(), then the error for a
\* statement without transactions or the ParsedStatement.  The lines of the
\* pool declare no period.
EndOfLines ==
  /\ dpOutcome.kind \in {"running", "break"}
  /\ \E after \in {Finalizing(dpParser, dpBlocks, dpCurrentBlock)} :
       /\ dpParser' = after.parser
       /\ dpBlocks' = after.blocks
       /\ IF NoTransactionsFound(after.parser.transactions)
            THEN dpOutcome' = [kind |-> "error"]
            ELSE \E now \in ClockPool :
                   \E range \in {resolveStatementDateRange(
                                   [kind |-> "null", time |-> 0], [kind |-> "null", time |-> 0],
                                   TransactionDates(after.parser.transactions), now)} :
                     dpOutcome' = [kind |-> "statement",
                                   transactions |-> after.parser.transactions,
                                   dateFrom |-> range.dateFrom, dateTo |-> range.dateTo,
                                   openingBalance |-> OpeningBalanceOf(after.parser),
                                   closingBalance |->
                                     ClosingBalanceOf(after.parser, dpTotalBalanceLines)]
  /\ dpCurrentBlock' = null
  /\ UNCHANGED <<dpLines, dpInTransactionSection, dpPendingPrelude, dpTotalBalanceLines,
                 catVars, hbVars, ptVars, rcVars, psVars, rgVars, stVars,
                 mkVars, emVars, imVars>>

DpNext == ReadLine \/ EndOfLines

SpecDebitPdf == DpInit /\ [][DpNext]_vars

(***************************************************************************)
(* resolveStatementDateRange as a machine: the call, then its return       *)
(***************************************************************************)
MaxTxDates == 2

\* days at, just inside and just outside the threshold of one another
DayPool == {0, 90, 120, 121, 300}

RgInit ==
  /\ rgPeriodFrom \in NoDates \cup {DateAt(time) : time \in DayPool}
  /\ rgPeriodTo \in NoDates \cup {DateAt(time) : time \in DayPool}
  /\ rgTxDates \in SeqsUpTo({[kind |-> "invalid", time |-> 0]}
                              \cup {DateAt(time) : time \in DayPool}, MaxTxDates)
  /\ rgNow \in {100, 400}
  /\ rgResult = <<>>
  /\ CatIdle /\ HbIdle /\ PtIdle /\ RcIdle /\ PsIdle /\ StIdle /\ DpIdle /\ MkIdle /\ EmIdle /\ ImIdle

Resolve ==
  /\ rgResult = <<>>
  /\ rgResult' = <<resolveStatementDateRange(rgPeriodFrom, rgPeriodTo, rgTxDates, rgNow)>>
  /\ UNCHANGED <<rgPeriodFrom, rgPeriodTo, rgTxDates, rgNow, catVars, hbVars, ptVars,
                 rcVars, psVars, stVars, dpVars, mkVars, emVars, imVars>>

SpecRange == RgInit /\ [][Resolve]_vars

(***************************************************************************)
(* The statements table: computeFileHash and the mutations that write it   *)
(***************************************************************************)
File(name, bytes) == [name |-> name, bytes |-> bytes]

\* two names for the same bytes, one name for different bytes
FilePool ==
  { File("jan.xls", <<80, 75, 3>>), File("jan (1).xls", <<80, 75, 3>>),
    File("feb.pdf", <<37, 80, 68, 70>>), File("jan.xls", <<3, 75, 80>>) }

\* crypto.subtle.digest("SHA-256", buffer) as a function of the bytes alone,
\* with a digest of two bytes in place of thirty-two
RECURSIVE DigestOf(_, _)
DigestOf(buffer, state) ==
  IF Len(buffer) = 0 THEN state
  ELSE DigestOf(Tail(buffer), (state * 31 + Head(buffer) + 1) % 65536)

digest(buffer) ==
  LET state == DigestOf(buffer, 7)
  IN  <<state \div 256, state % 256>>

\* b.toString(16).padStart(2, "0")
Hex(b) == CharAt("0123456789abcdef", (b \div 16) + 1) \o CharAt("0123456789abcdef", (b % 16) + 1)

computeFileHash(file) ==
  LET buffer == file.bytes
      hashArray == digest(buffer)
  IN  Join([i \in 1..Len(hashArray) |-> Hex(hashArray[i])], "")

\* ctx.db.query("statements").withIndex("by_hash", q => q.eq("fileHash", h))
ByHash_None(statements, fileHash) == {}

ByHash(statements, fileHash) == {s \in statements : s.fileHash = fileHash}

\* .first(): the earliest document of the index range
First(documents) == CHOOSE s \in documents : \A t \in documents : s.id <= t.id

MaxCalls == 4
MaxTransactions == 2

StInit ==
  /\ stStatements = {}
  /\ stTransactions = {}
  /\ stNextId = 1
  /\ stCalls = 0
  /\ stLast = [op |-> "none"]
  /\ CatIdle /\ HbIdle /\ PtIdle /\ RcIdle /\ PsIdle /\ RgIdle /\ DpIdle /\ MkIdle /\ EmIdle /\ ImIdle

Called(op, filename, fileHash, result) ==
  [op |-> op, filename |-> filename, fileHash |-> fileHash,
   statements |-> stStatements, transactions |-> stTransactions, result |-> result]

\* importStatement: the statement of an uploaded file and its transactions
ImportStatement ==
  /\ stCalls < MaxCalls
  /\ \E file \in FilePool, count \in 1..MaxTransactions :
       \E fileHash \in {computeFileHash(file)} :
         LET existing == ByHash(stStatements, fileHash)
             statementId == stNextId
         IN  IF existing # {}
             THEN /\ stLast' = Called("importStatement", file.name, fileHash,
                                      [statementId |-> First(existing).id,
                                       alreadyExists |-> TRUE, transactionIds |-> <<>>])
                  /\ UNCHANGED <<stStatements, stTransactions, stNextId>>
             ELSE /\ stStatements' = stStatements \cup
                        {[id |-> statementId, filename |-> file.name, fileHash |-> fileHash]}
                  /\ stTransactions' = stTransactions \cup
                        {[id |-> statementId + i, statementId |-> statementId] : i \in 1..count}
                  /\ stNextId' = statementId + count + 1
                  /\ stLast' = Called("importStatement", file.name, fileHash,
                                      [statementId |-> statementId, alreadyExists |-> FALSE,
                                       transactionIds |-> [i \in 1..count |-> statementId + i]])
  /\ stCalls' = stCalls + 1
  /\ UNCHANGED <<catVars, hbVars, ptVars, rcVars, psVars, rgVars, dpVars,
                 mkVars, emVars, imVars>>

\* create, in either of its two copies: a statement without transactions
Create ==
  /\ stCalls < MaxCalls
  /\ \E file \in FilePool :
       \E fileHash \in {computeFileHash(file)} :
         LET existing == ByHash(stStatements, fileHash)
         IN  IF existing # {}
             THEN /\ stLast' = Called("create", file.name, fileHash,
                                      [id |-> First(existing).id, alreadyExists |-> TRUE])
                  /\ UNCHANGED <<stStatements, stNextId>>
             ELSE /\ stStatements' = stStatements \cup
                        {[id |-> stNextId, filename |-> file.name, fileHash |-> fileHash]}
                  /\ stNextId' = stNextId + 1
                  /\ stLast' = Called("create", file.name, fileHash,
                                      [id |-> stNextId, alreadyExists |-> FALSE])
  /\ stCalls' = stCalls + 1
  /\ UNCHANGED <<stTransactions, catVars, hbVars, ptVars, rcVars, psVars, rgVars,
                 dpVars, mkVars, emVars, imVars>>

\* remove: the transactions of the statement, then the statement
Remove ==
  /\ stCalls < MaxCalls
  /\ \E statement \in stStatements :
       /\ stTransactions' = {tx \in stTransactions : tx.statementId # statement.id}
       /\ stStatements' = stStatements \ {statement}
       /\ stLast' = Called("remove", statement.filename, statement.fileHash, [id |-> statement.id])
  /\ stCalls' = stCalls + 1
  /\ UNCHANGED <<stNextId, catVars, hbVars, ptVars, rcVars, psVars, rgVars,
                 dpVars, mkVars, emVars, imVars>>

StNext == ImportStatement \/ Create \/ Remove

SpecStore == StInit /\ [][StNext]_vars

(***************************************************************************)
(* lib/parser: the markers of the debit spreadsheet                        *)
(***************************************************************************)
\* group 1 of fullRow.match(/(\d{10,})/), "" when there is no match
AccountMatch(fullRow) ==
  Only({IF starts = {} THEN ""
        ELSE Only({SubSeq(fullRow, p, p + RunAt(fullRow, DigitChars, p) - 1) :
                     p \in {CHOOSE q \in starts : \A r \in starts : q <= r}}) :
          starts \in {{q \in 1..Len(fullRow) : RunAt(fullRow, DigitChars, q) >= 10}}})

\* group 1 of fullRow.match(/-\s*([A-Z][A-Z\s]+)$/i), "" when there is no match
HolderMatch(fullRow) ==
  Only({IF dashes = {} THEN ""
        ELSE TrimStart(SubSeq(fullRow, (CHOOSE p \in dashes : \A r \in dashes : p <= r) + 1,
                              Len(fullRow))) :
          dashes \in
            {{p \in 1..Len(fullRow) :
                /\ CharAt(fullRow, p) = "-"
                /\ \E rest \in {TrimStart(SubSeq(fullRow, p + 1, Len(fullRow)))} :
                     /\ Len(rest) >= 2
                     /\ CharAt(rest, 1) \in LowerChars \cup UpperChars
                     /\ CharsOutside(rest, LowerChars \cup UpperChars \cup WhiteSpace)
                          = {}}}})

\* \d{2}\/\d{2}\/\d{4} at position p
IsDateTokenAt(s, p) ==
  /\ \A i \in {0, 1, 3, 4, 6, 7, 8, 9} : At(s, p + i) \in DigitChars
  /\ \A i \in {2, 5} : At(s, p + i) = "/"

\* where \s*to\s* after the date token at p ends, 0 when it does not match
AfterTo(s, p) ==
  Only({IF ToLowerCase(At(s, to) \o At(s, to + 1)) = "to"
          THEN to + 2 + RunAt(s, WhiteSpace, to + 2) ELSE 0 :
            to \in {p + 10 + RunAt(s, WhiteSpace, p + 10)}})

\* fullRow.match(/(\d{2}\/\d{2}\/\d{4})\s*to\s*(\d{2}\/\d{2}\/\d{4})/i)
DateMatch(fullRow) ==
  Only({IF starts = {} THEN null
        ELSE Only({[isNull |-> FALSE, from |-> SubSeq(fullRow, p, p + 9),
                    to |-> SubSeq(fullRow, AfterTo(fullRow, p), AfterTo(fullRow, p) + 9)] :
                     p \in {CHOOSE q \in starts : \A r \in starts : q <= r}}) :
          starts \in {{q \in 1..Len(fullRow) :
                         /\ IsDateTokenAt(fullRow, q)
                         /\ AfterTo(fullRow, q) > 0
                         /\ IsDateTokenAt(fullRow, AfterTo(fullRow, q))}}})

\* the declarations before the loop
NoMarkers ==
  [accountNumber |-> "", accountHolder |-> "",
   dateFrom |-> [kind |-> "null", time |-> 0], dateTo |-> [kind |-> "null", time |-> 0],
   headerRowIndex |-> -1, columnOffset |-> 0]

\* the loop on a row that contains "account number"
AccountInfo(meta, fullRow) ==
  Only({[meta EXCEPT !.accountNumber = IF accountMatch # "" THEN accountMatch ELSE @,
                     !.accountHolder = IF holderMatch # "" THEN Trim(holderMatch) ELSE @] :
          accountMatch \in {AccountMatch(fullRow)}, holderMatch \in {HolderMatch(fullRow)}})

\* the loop on a row that contains "from" and "to"
DateRange(meta, fullRow, now) ==
  Only({IF dateMatch.isNull THEN meta
        ELSE [meta EXCEPT !.dateFrom = parseIndianDate(dateMatch.from, now),
                          !.dateTo = parseIndianDate(dateMatch.to, now)] :
          dateMatch \in {DateMatch(fullRow)}})

\* the loop on a row that contains "s no"
HeaderRow(meta, row, i) ==
  [meta EXCEPT !.headerRowIndex = i,
               !.columnOffset = IF Len(row) = 0 \/ row[1] = "" THEN 1 ELSE 0]

\* one iteration of the loop that looks for the markers, on the row of index i
ScanMarkers(meta, row, i, now) ==
  Only({
    Only({
      Only({IF Includes(rowStr, "s no") THEN HeaderRow(afterPeriod, row, i)
            ELSE afterPeriod :
              afterPeriod \in {IF Includes(rowStr, "from") /\ Includes(rowStr, "to")
                                 THEN DateRange(afterAccount, fullRow, now)
                                 ELSE afterAccount}}) :
        afterAccount \in {IF Includes(rowStr, "account number")
                            THEN AccountInfo(meta, fullRow) ELSE meta}}) :
      fullRow \in {Join(row, " ")}, rowStr \in {ToLowerCase(Join(row, " "))}})

\* the loop over the first n rows, which ends at the header row
RECURSIVE MarkersAfter(_, _, _)
MarkersAfter(data, n, now) ==
  IF n = 0 THEN NoMarkers
  ELSE Only({IF before.headerRowIndex # -1 THEN before
             ELSE ScanMarkers(before, data[n], n - 1, now) :
               before \in {MarkersAfter(data, n - 1, now)}})

\* the row of the account, the row of the period, the header row, the header
\* row of a sheet whose first column is empty, and a row that is no marker
GridRowPool ==
  { <<"Account Number", "000401234567 - RAVI KUMAR">>,
    <<"Transactions List", "From 01/04/2024 To 30/04/2024">>,
    <<"S No.", "Remarks", "Balance">>,
    <<"", "S No.", "Remarks">>,
    <<"ICICI Bank Ltd">> }

MaxGridRows == 3

MkInit ==
  /\ mkData \in SeqsUpTo(GridRowPool, MaxGridRows)
  /\ mkPos = 0
  /\ mkMeta = NoMarkers
  /\ mkOutcome = "scanning"
  /\ CatIdle /\ HbIdle /\ PtIdle /\ RcIdle /\ PsIdle /\ RgIdle /\ StIdle /\ DpIdle /\ EmIdle /\ ImIdle

\* one iteration of the loop; the header row ends it
ScanRow ==
  /\ mkOutcome = "scanning"
  /\ mkPos < Len(mkData)
  /\ \E now \in ClockPool :
       \E meta \in {ScanMarkers(mkMeta, mkData[mkPos + 1], mkPos, now)} :
         /\ mkMeta' = meta
         /\ mkOutcome' = IF meta.headerRowIndex # -1 THEN "header" ELSE "scanning"
  /\ mkPos' = mkPos + 1
  /\ UNCHANGED <<mkData, catVars, hbVars, ptVars, rcVars, psVars, rgVars, stVars, dpVars,
                 emVars, imVars>>

\* the loop ended without a header row: the error
HeaderNotFound ==
  /\ mkOutcome = "scanning"
  /\ mkPos = Len(mkData)
  /\ mkOutcome' = "error"
  /\ UNCHANGED <<mkData, mkPos, mkMeta, catVars, hbVars, ptVars, rcVars, psVars, rgVars,
                 stVars, dpVars, emVars, imVars>>

MkNext == ScanRow \/ HeaderNotFound

SpecMarkers == MkInit /\ [][MkNext]_vars

(***************************************************************************)
(* lib/categorizer: extractMerchant as a machine                           *)
(***************************************************************************)
\* the segments narrations are made of: the words that open a channel bucket,
\* a merchant, a payee address, a reference number and a noise word
SegmentPool ==
  {"UPI", "NEFT", "MMT", "IMPS", "BIL", "VIN", "ATM", "CHQ", "Zomato", "ravi@okbank",
   "4471", "REF"}

MaxSegments == 3

EmInit ==
  /\ emRemarks \in {Join(segments, "/") : segments \in SeqsUpTo(SegmentPool, MaxSegments)}
  /\ emInfo = [merchant |-> "", method |-> "pending"]
  /\ CatIdle /\ HbIdle /\ PtIdle /\ RcIdle /\ PsIdle /\ RgIdle /\ StIdle /\ DpIdle /\ MkIdle /\ ImIdle

ExtractMerchant ==
  /\ emInfo.method = "pending"
  /\ emInfo' = extractMerchant(emRemarks)
  /\ UNCHANGED <<emRemarks, catVars, hbVars, ptVars, rcVars, psVars, rgVars, stVars, dpVars,
                 mkVars, imVars>>

SpecMerchant == EmInit /\ [][ExtractMerchant]_vars

(***************************************************************************)
(* App.tsx: importStatementWithCompatibility.  An object is the set of its *)
(* own property names; a thrown value is its kind and its message.         *)
(***************************************************************************)
\* a name every object inherits from Object.prototype
ObjectPrototypeNames == {"constructor"}

\* field in object
HasProperty(object, field) == field \in object \/ field \in ObjectPrototypeNames

\* what /\s/ matches
RegexSpace == {" ", "\n", "\t"}

\* the character ` of the source, which a string of this language cannot hold
GraveAccent == "'"

\* message.match(/extra field `([^`]+)`/i)?.[1], undefined as ""
FieldMatch(message) ==
  LET lower == ToLowerCase(message)
      opening == "extra field " \o GraveAccent
      closings(from) == {q \in from..Len(message) : CharAt(message, q) = GraveAccent}
      starts == {p \in 1..(Len(message) - Len(opening)) :
                   /\ SubSeq(lower, p, p + Len(opening) - 1) = opening
                   /\ CharAt(message, p + Len(opening)) # GraveAccent
                   /\ closings(p + Len(opening)) # {}}
  IN  IF starts = {} THEN ""
      ELSE LET from == Len(opening) + CHOOSE p \in starts : \A other \in starts : p <= other
               to == CHOOSE q \in closings(from) : \A other \in closings(from) : q <= other
           IN  SubSeq(message, from, to - 1)

\* message.match(/Path:\s*([^\n]+)/i)?.[1]?.trim(), undefined as ""; a match
\* of white space alone trims to nothing
PathMatch(message) ==
  LET lower == ToLowerCase(message)
      starts == {p \in 1..(Len(message) - 4) : SubSeq(lower, p, p + 4) = "path:"}
      rest(p) == {i \in (p + 5)..Len(message) : CharAt(message, i) \notin RegexSpace}
  IN  IF starts = {} \/ \A p \in starts : rest(p) = {} THEN ""
      ELSE LET p == CHOOSE p \in starts : \A other \in starts : p <= other
               from == CHOOSE i \in rest(p) : \A other \in rest(p) : i <= other
               ends == {i \in from..Len(message) : CharAt(message, i) = "\n"} \cup
                       {Len(message) + 1}
               to == CHOOSE i \in ends : \A other \in ends : i <= other
           IN  Trim(SubSeq(message, from, to - 1))

\* null
NoIssue == [field |-> "", path |-> ""]

getConvexValidationIssue(error) ==
  IF error.kind # "Error" THEN NoIssue
  ELSE IF ~Includes(error.message, "ArgumentValidationError") THEN NoIssue
  ELSE Only({IF Len(field) = 0 \/ Len(path) = 0 THEN NoIssue
             ELSE [field |-> field, path |-> path] :
               field \in {FieldMatch(error.message)},
               path \in {PathMatch(error.message)}})

\* the copy with the field deleted, and `removed`; null is removed = FALSE
removeRejectedField(payload, field, path) ==
  IF Includes(path, ".statement")
    THEN [next |-> [payload EXCEPT !.statement = @ \ {field}],
          removed |-> HasProperty(payload.statement, field)]
  ELSE IF Includes(path, ".transactions")
    THEN [next |-> [payload EXCEPT !.transactions =
                      [k \in 1..Len(payload.transactions) |->
                         payload.transactions[k] \ {field}]],
          removed |-> \E k \in 1..Len(payload.transactions) :
                        HasProperty(payload.transactions[k], field)]
  ELSE [next |-> payload, removed |-> FALSE]

\* `attempt < 8`
MaxAttempts == 8

\* statementData and one element of transactionData of handleStatementParsed
StatementFields ==
  {"filename", "statementType", "accountNumber", "accountHolder", "openingBalance",
   "closingBalance", "currency", "dateFrom", "dateTo", "transactionCount", "fileHash",
   "cashbackEarned", "cashbackTransferred"}

TransactionFields ==
  {"serialNo", "valueDate", "transactionDate", "chequeNumber", "remarks",
   "withdrawalAmount", "depositAmount", "balance", "categoryId", "merchantName",
   "paymentMethod", "rewardPoints"}

MaxImported == 2

Thrown(kind, message) == [kind |-> kind, message |-> message]

NothingThrown == Thrown("none", "")

\* the message of the server for a field its validator does not know
ExtraField(field, path) ==
  "ArgumentValidationError: Object contains extra field " \o GraveAccent \o field \o
  GraveAccent \o " that is not in the validator.\n\nPath: " \o path

\* what the mutation may reject with: fields of an older schema, a field no
\* object of the payload has, a name every object inherits, a path outside the
\* payload, a message without a path, another error, a value that is no Error
ThrownPool ==
  {Thrown("Error", ExtraField(field, ".statement")) :
     field \in {"currency", "fileHash", "cashbackEarned", "cashbackTransferred",
                "notes", "constructor"}}
  \cup {Thrown("Error", ExtraField(field, ".transactions[0]")) :
          field \in {"chequeNumber", "merchantName", "paymentMethod", "rewardPoints"}}
  \cup {Thrown("Error", ExtraField("fileHash", ".args")),
        Thrown("Error", "ArgumentValidationError: extra field " \o GraveAccent \o "fileHash" \o
                          GraveAccent),
        Thrown("Error", "Connection lost while action was in flight"),
        Thrown("other", ExtraField("fileHash", ".statement"))}

\* getConvexValidationIssue on the values of the pool, evaluated once
IssueMemo == [error \in ThrownPool |-> getConvexValidationIssue(error)]

\* the Error thrown after the loop
SchemaMismatch ==
  Thrown("Error", "Import failed due to backend schema mismatch. Please run " \o GraveAccent \o
                  "npx convex dev" \o GraveAccent \o " and retry.")

ImInit ==
  /\ \E n \in 0..MaxImported :
       imPayload = [statement |-> StatementFields,
                    transactions |-> [k \in 1..n |-> TransactionFields]]
  /\ imAttempt = 0
  /\ imCalls = 0
  /\ imPhase = "idle"
  /\ imThrown = NothingThrown
  /\ CatIdle /\ HbIdle /\ PtIdle /\ RcIdle /\ PsIdle /\ RgIdle /\ StIdle /\ DpIdle /\ MkIdle /\ EmIdle

\* the call up to its first await: attempt 0 invokes the mutation
StartImport ==
  /\ imPhase = "idle"
  /\ imCalls' = imCalls + 1
  /\ imPhase' = "awaiting"
  /\ UNCHANGED <<imPayload, imAttempt, imThrown, catVars, hbVars, ptVars, rcVars, psVars,
                 rgVars, stVars, dpVars, mkVars, emVars>>

\* the mutation resolves: return await importStatement(payload)
MutationResolves ==
  /\ imPhase = "awaiting"
  /\ imPhase' = "returned"
  /\ UNCHANGED <<imPayload, imAttempt, imCalls, imThrown, catVars, hbVars, ptVars, rcVars,
                 psVars, rgVars, stVars, dpVars, mkVars, emVars>>

\* the state after the catch block ran on `error`, up to the next await or throw
AfterRejection(payload, attempt, calls, error) ==
  Only({
    IF issue = NoIssue THEN
      [payload |-> payload, attempt |-> attempt, calls |-> calls, phase |-> "thrown",
       thrown |-> error]
    ELSE Only({
      IF ~nextPayload.removed THEN
        [payload |-> payload, attempt |-> attempt, calls |-> calls, phase |-> "thrown",
         thrown |-> error]
      ELSE IF attempt + 1 < MaxAttempts THEN
        [payload |-> nextPayload.next, attempt |-> attempt + 1, calls |-> calls + 1,
         phase |-> "awaiting", thrown |-> NothingThrown]
      ELSE
        [payload |-> nextPayload.next, attempt |-> attempt + 1, calls |-> calls,
         phase |-> "thrown", thrown |-> SchemaMismatch] :
        nextPayload \in {removeRejectedField(payload, issue.field, issue.path)}}) :
      issue \in {Memoized(IssueMemo, error, getConvexValidationIssue(error))}})

\* the mutation rejects: the catch block, then the next iteration's call or
\* the throw after the loop
MutationRejects ==
  /\ imPhase = "awaiting"
  /\ \E error \in ThrownPool :
       \E after \in {AfterRejection(imPayload, imAttempt, imCalls, error)} :
         /\ imPayload' = after.payload
         /\ imAttempt' = after.attempt
         /\ imCalls' = after.calls
         /\ imPhase' = after.phase
         /\ imThrown' = after.thrown
  /\ UNCHANGED <<catVars, hbVars, ptVars, rcVars, psVars, rgVars, stVars, dpVars, mkVars,
                 emVars>>

ImNext == StartImport \/ MutationResolves \/ MutationRejects

SpecImport == ImInit /\ [][ImNext]_vars

\* the event loop runs the call, and the client settles every mutation it sent
SpecImportFair ==
  SpecImport /\ WF_vars(StartImport) /\ WF_vars(MutationResolves \/ MutationRejects)

(***************************************************************************)
(* Claims about categorizeTransaction                                      *)
(***************************************************************************)
Returned == catResult # Pending

FallbackCategories == {"transfers", "salary", "refunds", "income", "uncategorized"}

\* C1: categorizeTransaction never raises and always returns a categoryId, for
\* every rule list (regex rules that do not compile, rules that do not match,
\* rules of an unknown type) and every hint map; when no rule scores at least
\* 60 and no hint applies, the result is one of transfers, salary, refunds,
\* income, uncategorized.
C1_AlwaysCategorized ==
  Returned =>
    /\ catResult # RaisedCategory
    /\ Len(catResult) > 0
    /\ ( /\ \A i \in 1..Len(catRules) : catScores[i] < 600
         /\ categoryFromHints(catTx, catHints) = ""
         => catResult \in FallbackCategories )

\* a call with a regex rule that does not compile and a rule of an unknown
\* type, no rule reaching 60 and no hint, has returned "uncategorized"
C1_Witness ==
  /\ Returned
  /\ \E i \in 1..Len(catRules) :
       catRules[i].type = "regex" /\ RegExpThrows(catRules[i].pattern)
  /\ \E i \in 1..Len(catRules) :
       catRules[i].type \notin {"keyword", "regex", "merchant", "deposit", "amount"}
  /\ \A i \in 1..Len(catRules) : catScores[i] < 600
  /\ categoryFromHints(catTx, catHints) = ""
  /\ catResult = "uncategorized"

\* the rule lists that reorder catRules, each with its scores
Reorderings(n) ==
  {f \in [1..n -> 1..n] : \A i, j \in 1..n : i # j => f[i] # f[j]}

WinnerUnder(f) ==
  BestMatchAfter([i \in 1..Len(catRules) |-> catRules[f[i]]],
                 [i \in 1..Len(catRules) |-> catScores[f[i]]], Len(catRules))

Matching == {i \in 1..Len(catRules) : catScores[i] > 0}
TopScoring == {i \in Matching : \A j \in Matching : catScores[j] <= catScores[i]}
TopPriority ==
  {i \in TopScoring : \A j \in TopScoring : catRules[i].priority <= catRules[j].priority}

\* C2 as stated: the winning rule has the highest positive score, the lower
\* priority number wins among equal scores, and the winner does not depend on
\* the order of the rule list.
C2_OrderIndependentWinner ==
  Returned /\ Matching # {} =>
    /\ \E i \in TopPriority : catBest.categoryId = catRules[i].categoryId
    /\ \A f \in Reorderings(Len(catRules)) :
         WinnerUnder(f).categoryId = catBest.categoryId

\* C2 (amended): the winning rule has the highest positive score; among equal
\* scores the lower priority number wins; among rules equal in both, the
\* earliest of the list wins, so the winner depends on the order of the list
\* only when rules tied on score and priority name different categories.
C2_HighestScoreThenPriorityThenFirst ==
  Returned =>
    /\ (Matching = {} <=> catBest = NoMatch)
    /\ Matching # {} =>
         LET first == CHOOSE i \in TopPriority : \A j \in TopPriority : i <= j
         IN  /\ catBest = [categoryId |-> catRules[first].categoryId,
                           score |-> catScores[first],
                           priority |-> catRules[first].priority]
             /\ (\A i, j \in TopPriority : catRules[i].categoryId = catRules[j].categoryId)
                  => \A f \in Reorderings(Len(catRules)) :
                       WinnerUnder(f).categoryId = catBest.categoryId

\* two rules match with equal score, and the later one, with the lower priority
\* number, has won
C2_Witness ==
  /\ Returned
  /\ \E i, j \in Matching :
       /\ i < j
       /\ catScores[i] = catScores[j]
       /\ catRules[j].priority < catRules[i].priority
       /\ catRules[j].categoryId # catRules[i].categoryId
       /\ catBest.categoryId = catRules[j].categoryId

HintOrFallback ==
  LET hintedCategory == categoryFromHints(catTx, catHints)
  IN  IF Len(hintedCategory) > 0 THEN hintedCategory ELSE FallbackCategory(catTx)

\* C3: the winning rule's categoryId is used only if its score is at least 60:
\* a best score of exactly 59, or anything below 60, falls through to hints and
\* fallbacks, a best score of exactly 60 sets it.
C3_ThresholdSixty ==
  Returned =>
    /\ catBest.score >= 600 => catResult = catBest.categoryId
    /\ catBest.score < 600 => catResult = HintOrFallback
    /\ catBest.score = 590 => catResult = HintOrFallback

\* a best score of exactly 60 has set a category that neither the hints nor the
\* fallbacks would have given
C3_Witness ==
  /\ Returned
  /\ catBest.score = 600
  /\ catResult = catBest.categoryId
  /\ catResult # HintOrFallback

\* a best score of exactly 59 was passed over for the hint or the fallback
C3_Reaches59 ==
  /\ Returned
  /\ catBest.score = 590
  /\ catResult # catBest.categoryId

(***************************************************************************)
(* Claims about buildMerchantHints                                         *)
(***************************************************************************)
\* the largest count among the categories of a merchant
TopCountOf(k) ==
  LET counts == {hbByMerchant[k].byCategory[i].count :
                   i \in 1..Len(hbByMerchant[k].byCategory)}
  IN  CHOOSE c \in counts : \A d \in counts : d <= c

\* C4: buildMerchantHints produces a hint for a merchant key exactly when the
\* merchant's most frequent category has a supporting count of at least 2 and a
\* confidence (count / total) of at least 0.65; the hint names that category
\* and categoryFromHints returns it.  A single supporting transaction never
\* gives a hint, 13 of 20 (0.65) does, 16 of 25 (0.64) does not.
C4_HintGate ==
  hbPhase = "built" =>
    \A k \in DOMAIN hbByMerchant :
      LET top == TopCountOf(k)
          total == hbByMerchant[k].total
      IN  /\ k \in DOMAIN hbHints <=> (top >= 2 /\ 100 * top >= 65 * total)
          /\ top = 1 => k \notin DOMAIN hbHints
          /\ (top = 13 /\ total = 20) => k \in DOMAIN hbHints
          /\ (top = 16 /\ total = 25) => k \notin DOMAIN hbHints
          /\ k \in DOMAIN hbHints =>
               /\ hbHints[k].count = top
               /\ hbHints[k].total = total
               /\ \E i \in 1..Len(hbByMerchant[k].byCategory) :
                    hbByMerchant[k].byCategory[i] =
                      [categoryId |-> hbHints[k].categoryId, count |-> top]
               /\ categoryFromHints([merchantName |-> k], hbHints) = hbHints[k].categoryId

\* a merchant with 13 of 20 transactions in its top category has a hint, while
\* a merchant with a single transaction has none
C4_Witness ==
  /\ hbPhase = "built"
  /\ \E k \in DOMAIN hbByMerchant :
       /\ TopCountOf(k) = 13 /\ hbByMerchant[k].total = 20
       /\ k \in DOMAIN hbHints
  /\ \E k \in DOMAIN hbByMerchant :
       /\ hbByMerchant[k].total = 1
       /\ k \notin DOMAIN hbHints

\* a merchant with 16 of 25 transactions in its top category was refused a hint
C4_Reaches64 ==
  /\ hbPhase = "built"
  /\ \E k \in DOMAIN hbByMerchant :
       /\ TopCountOf(k) = 16 /\ hbByMerchant[k].total = 25
       /\ k \notin DOMAIN hbHints

(***************************************************************************)
(* Claims about processTransactions                                        *)
(***************************************************************************)
\* C7: within one processTransactions call, once a transaction with a
\* non-empty merchant key k has been assigned a category c other than
\* uncategorized, every later transaction of the call with key k is assigned c
\* and is not scored against the rules.
C7_SessionCacheReused ==
  \A i, j \in 1..Len(ptOut) :
    /\ i < j
    /\ Len(ptTrace[i].merchantKey) > 0
    /\ ptTrace[j].merchantKey = ptTrace[i].merchantKey
    /\ ptOut[i].categoryId # "uncategorized"
    => /\ ptOut[j].categoryId = ptOut[i].categoryId
       /\ ~ptTrace[j].scored

\* a later transaction took its merchant's category from the cache where the
\* rules, hints and fallbacks would have given it another one
C7_Witness ==
  \E i, j \in 1..Len(ptOut) :
    /\ i < j
    /\ Len(ptTrace[i].merchantKey) > 0
    /\ ptTrace[j].merchantKey = ptTrace[i].merchantKey
    /\ ptOut[i].categoryId # "uncategorized"
    /\ ptTrace[i].scored
    /\ ~ptTrace[j].scored
    /\ ptOut[j].categoryId = ptOut[i].categoryId
    /\ categorizeTransaction(
         [remarks |-> ptOut[j].remarks, merchantName |-> ptOut[j].merchantName,
          withdrawalAmount |-> ptOut[j].withdrawalAmount,
          depositAmount |-> ptOut[j].depositAmount], ptRules, ptHints)
       # ptOut[j].categoryId

(***************************************************************************)
(* Claims about re-categorization                                          *)
(***************************************************************************)
RecategorizationStep == StartRecategorize \/ SendChunk \/ FinishRecategorize

\* C5: no step of a re-categorization run (handleRecategorizeAll computing its
\* updates, batchUpdateCategoryIds applying a chunk, the run ending) changes or
\* clears the userCategoryOverride of any stored transaction, whatever
\* updateCategory calls, deletions and renderings come between the steps.
C5_OverridePreserved ==
  [][RecategorizationStep =>
       \A id \in DOMAIN rcDb \cap DOMAIN rcDb' :
         rcDb'[id].userCategoryOverride = rcDb[id].userCategoryOverride]_vars

\* every update of a run was applied, one of them to a transaction the user
\* had overridden after the page rendered, and the override is still there
C5_Witness ==
  /\ rcRunning
  /\ rcStart >= Len(rcUpdates)
  /\ rcUpdatedCount = Len(rcUpdates)
  /\ \E k \in 1..Len(rcUpdates) :
       /\ rcUpdates[k].id \in DOMAIN rcDb
       /\ rcDb[rcUpdates[k].id].categoryId = rcUpdates[k].categoryId
       /\ rcDb[rcUpdates[k].id].userCategoryOverride \in RcOverridePool

(***************************************************************************)
(* Claims about the statement parsers                                      *)
(***************************************************************************)
\* C6: every transaction the debit-PDF parser pushes from a block with three
\* trailing amounts while previousBalance is known either reconciles
\* (previousBalance + deposit - withdrawal is within 0.01 of balance) or has its
\* amounts taken from the balance delta alone (one is |balance -
\* previousBalance|, the other 0).
C6_ReconciledOrDerived ==
  psParser = "debitPdf" =>
    \A i \in 1..Len(psTransactions) :
      (Len(psTrace[i].block.amountTexts) >= 3 /\ psTrace[i].previousBalance.defined) =>
        \/ Abs(psTrace[i].previousBalance.value + psTransactions[i].depositAmount
                 - psTransactions[i].withdrawalAmount - psTransactions[i].balance) <= 1
        \/ /\ psTransactions[i].depositAmount
                = Abs(psTransactions[i].balance - psTrace[i].previousBalance.value)
           /\ psTransactions[i].withdrawalAmount = 0
        \/ /\ psTransactions[i].withdrawalAmount
                = Abs(psTransactions[i].balance - psTrace[i].previousBalance.value)
           /\ psTransactions[i].depositAmount = 0

\* C8: every transaction a parser pushes has withdrawalAmount, depositAmount
\* and balance of at least 0.
C8_AmountsNonNegative ==
  \A i \in 1..Len(psTransactions) :
    /\ psTransactions[i].withdrawalAmount >= 0
    /\ psTransactions[i].depositAmount >= 0
    /\ psTransactions[i].balance >= 0

(***************************************************************************)
(* Claims about resolveStatementDateRange                                  *)
(***************************************************************************)
Resolved == rgResult # <<>>

RgTxTimes == TxTimes(rgTxDates)
RgMinTx == CHOOSE t \in RgTxTimes : \A u \in RgTxTimes : t <= u
RgMaxTx == CHOOSE t \in RgTxTimes : \A u \in RgTxTimes : t >= u

\* C9: every result of resolveStatementDateRange has dateFrom <= dateTo, and
\* when a transaction has a valid date, dateFrom is within 120 days of the
\* earliest transaction date and dateTo within 120 days of the latest, whatever
\* the declared period (valid, invalid, absent or inverted).
C9_OrderedAndNearTransactions ==
  Resolved =>
    /\ rgResult[1].dateFrom <= rgResult[1].dateTo
    /\ RgTxTimes # {} =>
         /\ Abs(rgResult[1].dateFrom - RgMinTx) <= thresholdDays
         /\ Abs(rgResult[1].dateTo - RgMaxTx) <= thresholdDays

\* an inverted declared period whose bounds are both within 120 days of the
\* transactions, resolved to the transactions' own range
C9_Witness ==
  /\ Resolved
  /\ RgTxTimes # {}
  /\ isValidDate(rgPeriodFrom) /\ isValidDate(rgPeriodTo)
  /\ rgPeriodFrom.time > rgPeriodTo.time
  /\ ~BeyondThreshold(rgPeriodFrom.time, RgMinTx)
  /\ ~BeyondThreshold(rgPeriodTo.time, RgMaxTx)
  /\ rgResult[1] = Range(RgMinTx, RgMaxTx)

RgDeclared == RgTxTimes # {} /\ isValidDate(rgPeriodFrom) /\ isValidDate(rgPeriodTo)

\* each bound on its own: the declared one, or the transactions' when the
\* declared one is more than 120 days away
RgBoundwise ==
  Range(IF Abs(rgPeriodFrom.time - RgMinTx) > thresholdDays THEN RgMinTx
        ELSE rgPeriodFrom.time,
        IF Abs(rgPeriodTo.time - RgMaxTx) > thresholdDays THEN RgMaxTx
        ELSE rgPeriodTo.time)

\* C10 as stated: with transactions and a valid declared period, each resolved
\* bound is the declared one unless that differs from the transactions' bound
\* by more than 120 days, and only then is the transactions' bound substituted.
C10_DeclaredUnlessBeyondThreshold ==
  (Resolved /\ RgDeclared) => rgResult[1] = RgBoundwise

\* C10, amended: each bound is chosen as stated, but when the bounds so chosen
\* are inverted (dateFrom > dateTo) both are replaced by the transactions'
\* earliest and latest dates.
C10_DeclaredUnlessBeyondThresholdOrInverted ==
  (Resolved /\ RgDeclared) =>
    rgResult[1] = IF RgBoundwise.dateFrom > RgBoundwise.dateTo
                    THEN Range(RgMinTx, RgMaxTx) ELSE RgBoundwise

\* a declared bound exactly 120 days from the transactions' is kept, and one
\* 121 days away is replaced
C10_Witness ==
  /\ Resolved /\ RgDeclared
  /\ Abs(rgPeriodFrom.time - RgMinTx) = thresholdDays
  /\ Abs(rgPeriodTo.time - RgMaxTx) = thresholdDays + 1
  /\ rgResult[1] = Range(rgPeriodFrom.time, RgMaxTx)

(***************************************************************************)
(* Claims about the end of a parser, its dates and the card PDF lines      *)
(***************************************************************************)
Ended == psOutcome.kind \in {"error", "statement"}

\* C11: a parser that has ended either failed with an error, returning no
\* transactions at all, or returned a statement with at least one transaction.
C11_ErrorOrNonEmptyStatement ==
  Ended =>
    IF psOutcome.kind = "error"
      THEN psOutcome.transactions = <<>>
      ELSE Len(psOutcome.transactions) >= 1 /\ psOutcome.transactions = psTransactions

\* C11 happens: the debit-PDF parser read blocks that held no valid record
\* and ended with the error
C11_Witness ==
  /\ Ended
  /\ psPos > 0
  /\ psOutcome.kind = "error"
  /\ psParser = "debitPdf"

\* the date a parser gives the i-th transaction when the clock reads `now`
DateUnder(i, now) ==
  IF psParser = "debit"
    THEN parseIndianDate(psTrace[i].block.transactionDate, now)
  ELSE IF psParser = "creditPdf"
    THEN parseIndianDate(psTrace[i].block.dateToken, now)
  ELSE parseDashedIndianDate(psTrace[i].block.dateText)

\* C13: the date of every transaction a parser emits, and the period of the
\* statement it returns, are the ones a run of the same input at any other
\* moment gives; processTransactions reads no clock, so the output of the
\* pipeline depends on the time only through these.
C13_OutputIndependentOfClock ==
  /\ \A i \in 1..Len(psTransactions) : \A now \in ClockPool :
       psTransactions[i].transactionDate = DateUnder(i, now)
  /\ psOutcome.kind = "statement" =>
       \A now \in ClockPool :
         \E range \in {resolveStatementDateRange(psPeriod[1], psPeriod[2],
                         TransactionDates(psTransactions), now)} :
           psOutcome.dateFrom = range.dateFrom /\ psOutcome.dateTo = range.dateTo

\* C14: a transaction of the card PDF has its amount as withdrawalAmount and a
\* depositAmount of 0 when the amount of its line is not followed by CR, the
\* two swapped when it is, whatever the narration of the line says, and a
\* balance of 0.
C14_DirectionFromSuffixAlone ==
  psParser = "creditPdf" =>
    \A i \in 1..Len(psTransactions) :
      \E amount \in {parseFloat(ReplaceRuns(psTrace[i].block.amountToken, {","}, "")).value} :
        /\ psTransactions[i].balance = 0
        /\ IF ToUpperCase(psTrace[i].block.suffix) = "CR"
             THEN /\ psTransactions[i].depositAmount = amount
                  /\ psTransactions[i].withdrawalAmount = 0
             ELSE /\ psTransactions[i].withdrawalAmount = amount
                  /\ psTransactions[i].depositAmount = 0

\* the category the pipeline gives the i-th transaction of a statement on its
\* own, there being no history
CategoryOfEmitted(i) ==
  processTransactions(
    << RawTx(psTransactions[i].remarks, psTransactions[i].withdrawalAmount,
             psTransactions[i].depositAmount) >>,
    defaultRules, "debit", <<>>)[1].categoryId

\* C15: the block with the prelude UPI/SWIGGY/xyz@bank and the trailing amounts
\* 300.00 0.00 5200.00, finalized when previousBalance is 4900, is emitted as
\* a deposit of 300 with no withdrawal and a balance of 5200, and the pipeline
\* files it under refunds only if its narration has a refund keyword and
\* under income otherwise.
C15_SwiggyDepositIsIncome ==
  psParser = "debitPdf" =>
    \A i \in 1..Len(psTransactions) :
      ( /\ psTrace[i].block
             = Block("03-04-2024", "UPI/SWIGGY/xyz@bank", <<"300.00", "0.00", "5200.00">>)
        /\ psTrace[i].previousBalance = Defined(490000) ) =>
        /\ psTransactions[i].depositAmount = 30000
        /\ psTransactions[i].withdrawalAmount = 0
        /\ psTransactions[i].balance = 520000
        /\ \E categoryId \in {CategoryOfEmitted(i)},
              narration \in {normalize(psTransactions[i].remarks)} :
             IF \/ Includes(narration, "REFUND") \/ Includes(narration, "REVERSAL")
                \/ Includes(narration, "CASHBACK") \/ Includes(narration, "REWARD")
               THEN categoryId = "refunds"
               ELSE categoryId = "income"

(***************************************************************************)
(* Claims about the statements table                                       *)
(***************************************************************************)
\* C12: the hash of a file is a function of its bytes, whatever its name; an
\* importStatement whose fileHash is that of a stored statement returns
\* alreadyExists = true with no transaction ids and leaves both tables as they
\* were; and after any sequence of importStatement, create and remove no two
\* stored statements have the same fileHash.
C12_NoTwoStatementsShareAFileHash ==
  /\ \A f, g \in FilePool : f.bytes = g.bytes => computeFileHash(f) = computeFileHash(g)
  /\ \A s, t \in stStatements : s.fileHash = t.fileHash => s = t
  /\ (/\ stLast.op = "importStatement"
      /\ \E s \in stLast.statements : s.fileHash = stLast.fileHash)
       => /\ stLast.result.alreadyExists
          /\ stLast.result.transactionIds = <<>>
          /\ stStatements = stLast.statements
          /\ stTransactions = stLast.transactions

\* C12 happens: a file stored under one name was uploaded again under another
\* name, after some other statement had been removed, and was found
C12_Witness ==
  /\ stLast.op = "importStatement"
  /\ stLast.result.alreadyExists
  /\ \E s \in stStatements : s.fileHash = stLast.fileHash /\ s.filename # stLast.filename
  /\ \E s \in stStatements : s.id > Cardinality(stStatements) + Cardinality(stTransactions)

(***************************************************************************)
(* Claims about rules that do not compile and about the resolution order   *)
(***************************************************************************)
DoesNotCompile(rule) == rule.type = "regex" /\ RegExpThrows(rule.pattern)

\* C16: a regex rule whose pattern does not compile scores 0, the rules after
\* it in the list are scored all the same, and the category returned is the
\* one categorizeTransaction returns for the list with that rule removed.
C16_BadRegexRuleIsANonMatch ==
  Returned =>
    \A i \in 1..Len(catRules) :
      DoesNotCompile(catRules[i]) =>
        LET removed == [j \in 1..(Len(catRules) - 1) |->
                          IF j < i THEN catRules[j] ELSE catRules[j + 1]]
        IN  /\ catScores[i] = 0
            /\ Len(catScores) = Len(catRules)
            /\ \A j \in 1..Len(catRules) :
                 catScores[j] = RuleScore(catTx, catRules[j])
            /\ catResult = categorizeTransaction(catTx, removed, catHints)

\* C16 happens: the rule that does not compile came first, the keyword rule
\* after it was scored and decided the category
C16_Witness ==
  /\ Returned
  /\ Len(catRules) = 2
  /\ DoesNotCompile(catRules[1])
  /\ catScores[1] = 0
  /\ catRules[2].type = "keyword"
  /\ catScores[2] >= RuleThreshold
  /\ catResult = catRules[2].categoryId

\* C17: a rule scoring at least 60 decides, whatever the hints say; failing
\* that a qualifying hint decides, whatever the narration says; failing that a
\* narration with ATM, CASH WITHDRAWAL or SELF TRANSFER is transfers, deposit or
\* not; failing that a deposit is salary on SALARY or PAYROLL, else refunds on
\* REFUND, REVERSAL, CASHBACK or REWARD, else income; everything else is
\* uncategorized.
C17_ResolutionOrder ==
  Returned =>
    LET strong == {i \in 1..Len(catRules) : catScores[i] >= 600}
        hinted == categoryFromHints(catTx, catHints)
        text == normalize(catTx.remarks)
        transfer == \E word \in {"ATM", "CASH WITHDRAWAL", "SELF TRANSFER"} : Includes(text, word)
        deposit == catTx.depositAmount > 0
        salary == \E word \in {"SALARY", "PAYROLL"} : Includes(text, word)
        refund == \E word \in {"REFUND", "REVERSAL", "CASHBACK", "REWARD"} : Includes(text, word)
    IN  /\ strong # {} =>
             \E i \in strong :
               /\ catResult = catRules[i].categoryId
               /\ \A j \in strong : catScores[j] <= catScores[i]
        /\ strong = {} /\ hinted # "" => catResult = hinted
        /\ strong = {} /\ hinted = "" =>
             /\ transfer => catResult = "transfers"
             /\ ~transfer /\ deposit /\ salary => catResult = "salary"
             /\ ~transfer /\ deposit /\ ~salary /\ refund => catResult = "refunds"
             /\ ~transfer /\ deposit /\ ~salary /\ ~refund => catResult = "income"
             /\ ~transfer /\ ~deposit => catResult = "uncategorized"

\* C17 happens: a deposit whose narration names both ATM and SALARY, with rules
\* that all stayed under 60 and no hint, came out as transfers
C17_Witness ==
  /\ Returned
  /\ catTx.depositAmount > 0
  /\ Includes(normalize(catTx.remarks), "ATM")
  /\ Includes(normalize(catTx.remarks), "SALARY")
  /\ Len(catRules) > 0
  /\ \A i \in 1..Len(catRules) : catScores[i] < RuleThreshold
  /\ categoryFromHints(catTx, catHints) = ""
  /\ catResult = "transfers"

\* C17 happens as well: a refund from a merchant with a qualifying hint, with
\* rules that all stayed under 60, took the category of the hint
C17_HintBeforeFallbacks ==
  /\ Returned
  /\ catTx.depositAmount > 0
  /\ Includes(normalize(catTx.remarks), "REFUND")
  /\ \A i \in 1..Len(catRules) : catScores[i] < RuleThreshold
  /\ categoryFromHints(catTx, catHints) # ""
  /\ catResult = categoryFromHints(catTx, catHints)

(***************************************************************************)
(* Claims about the lines of the debit PDF                                 *)
(***************************************************************************)
\* C18: the transactions the debit-PDF parser has pushed carry the serial
\* numbers 1, 2, ..., n in the order they were pushed, and serialNo is n + 1,
\* whatever lines were read and however many blocks were discarded.
C18_SerialNumbersWithoutGap ==
  /\ \A i \in 1..Len(dpParser.transactions) : dpParser.transactions[i].serialNo = i
  /\ dpParser.serialNo = Len(dpParser.transactions) + 1
  /\ dpOutcome.kind = "statement" => dpOutcome.transactions = dpParser.transactions

\* C18 happens: a statement was returned whose first block was pushed, whose
\* second block was discarded and whose third block was pushed
C18_Witness ==
  /\ dpOutcome.kind = "statement"
  /\ Len(dpBlocks) = 3
  /\ dpBlocks[1].emitted /\ ~dpBlocks[2].emitted /\ dpBlocks[3].emitted
  /\ Len(dpOutcome.transactions) = 2

\* a line the loop takes for a Total line
IsTotalLine(line) ==
  \E facts \in {Memoized(LineMemo, line, LineFacts(line))} :
    facts.total /\ ~facts.header /\ ~facts.page /\ ~facts.marker

\* C19: a Total line closes the block that was open: no block is open whose
\* date line was followed by a Total line, and no block, open or finalized,
\* holds a line that was read after a Total line that followed its date line.
C19_TotalLineFinalizesTheBlock ==
  /\ ~dpCurrentBlock.isNull =>
       \A i \in (dpCurrentBlock.lineNos[1] + 1)..Len(dpLines) : ~IsTotalLine(dpLines[i])
  /\ \A k \in 1..Len(dpBlocks) :
       \A j \in 2..Len(dpBlocks[k].lineNos) :
         \A i \in (dpBlocks[k].lineNos[1] + 1)..(dpBlocks[k].lineNos[j] - 1) :
           ~IsTotalLine(dpLines[i])

\* the finalized blocks that are B/F rows with a balance
OpeningRows ==
  {k \in 1..Len(dpBlocks) :
     /\ Len(dpBlocks[k].block.amountTexts) > 0
     /\ IsOpeningRow(dpBlocks[k].block.rawRemarks)}

\* C20: no block whose narration carries B/F is pushed as a transaction, and
\* the openingBalance of the statement returned is the balance of the first
\* B/F row, whether transactions were pushed before that row or not.
C20_FirstOpeningRowIsOpeningBalance ==
  /\ \A k \in 1..Len(dpBlocks) :
       IsOpeningRow(dpBlocks[k].block.rawRemarks) => ~dpBlocks[k].emitted
  /\ dpOutcome.kind = "statement" /\ OpeningRows # {} =>
       \E first \in OpeningRows :
         /\ \A k \in OpeningRows : first <= k
         /\ dpOutcome.openingBalance =
              Defined(parseNoisyAmount(
                dpBlocks[first].block.amountTexts[Len(dpBlocks[first].block.amountTexts)]))

\* the half of C20 that holds: no B/F block is pushed, and a B/F row that
\* comes before every pushed transaction gives the openingBalance
C20_OpeningRowNeverEmitted ==
  /\ \A k \in 1..Len(dpBlocks) :
       IsOpeningRow(dpBlocks[k].block.rawRemarks) => ~dpBlocks[k].emitted
  /\ dpOutcome.kind = "statement" /\ OpeningRows # {} =>
       \E first \in OpeningRows :
         /\ \A k \in OpeningRows : first <= k
         /\ (\A k \in 1..(first - 1) : ~dpBlocks[k].emitted) =>
              dpOutcome.openingBalance =
                Defined(parseNoisyAmount(
                  dpBlocks[first].block.amountTexts[Len(dpBlocks[first].block.amountTexts)]))

\* the lines the loop took for a Total banner inside the transaction section
TotalBannersSeen ==
  {i \in 1..Len(dpLines) :
     /\ IsTotalLine(dpLines[i])
     /\ \E j \in 1..(i - 1) :
          \E facts \in {Memoized(LineMemo, dpLines[j], LineFacts(dpLines[j]))} :
            facts.header \/ ~facts.dateStart.isNull}

\* C21: the closingBalance of the statement returned is the balance of the last
\* Total banner seen in the transaction section, and without a Total banner it
\* is the balance of the last transaction pushed, whatever blocks were
\* discarded after that transaction.
C21_ClosingBalanceIsLastTotalElseLastTransaction ==
  dpOutcome.kind = "statement" =>
    IF TotalBannersSeen # {}
      THEN \E last \in TotalBannersSeen :
             /\ \A i \in TotalBannersSeen : i <= last
             /\ dpOutcome.closingBalance =
                  Defined(Memoized(LineMemo, dpLines[last], LineFacts(dpLines[last])).totalBalance)
      ELSE dpOutcome.closingBalance =
             Defined(dpOutcome.transactions[Len(dpOutcome.transactions)].balance)

\* the part of C21 that holds: the last Total banner, else the balance of the
\* last block that was pushed or was a B/F row
C21_ClosingBalanceIsLastTotalElsePreviousBalance ==
  dpOutcome.kind = "statement" =>
    IF TotalBannersSeen # {}
      THEN \E last \in TotalBannersSeen :
             /\ \A i \in TotalBannersSeen : i <= last
             /\ dpOutcome.closingBalance =
                  Defined(Memoized(LineMemo, dpLines[last], LineFacts(dpLines[last])).totalBalance)
      ELSE \E k \in 1..Len(dpBlocks) :
             /\ dpBlocks[k].emitted \/ k \in OpeningRows
             /\ \A later \in (k + 1)..Len(dpBlocks) :
                  ~dpBlocks[later].emitted /\ later \notin OpeningRows
             /\ dpOutcome.closingBalance =
                  Defined(parseNoisyAmount(
                    dpBlocks[k].block.amountTexts[Len(dpBlocks[k].block.amountTexts)]))

\* the balance a finalized block ends in
BlockBalance(k) ==
  parseNoisyAmount(dpBlocks[k].block.amountTexts[Len(dpBlocks[k].block.amountTexts)])

\* previousBalance when the k-th block was finalized: the balance of the last
\* block before it that was pushed or was a B/F row
PreviousBalanceAt(k) ==
  Only({IF anchors = {} THEN undefined
        ELSE Defined(BlockBalance(CHOOSE j \in anchors : \A i \in anchors : i <= j)) :
          anchors \in {{j \in 1..(k - 1) : dpBlocks[j].emitted \/ j \in OpeningRows}}})

\* the finalized blocks with a single amount and the balance, B/F rows aside
SingleAmountRows ==
  {k \in 1..Len(dpBlocks) :
     /\ Len(dpBlocks[k].block.amountTexts) = 2
     /\ ~IsOpeningRow(dpBlocks[k].block.rawRemarks)}

\* the transaction pushed for the k-th block, which was emitted
TransactionOf(k) ==
  dpParser.transactions[Cardinality({j \in 1..k : dpBlocks[j].emitted})]

\* the k-th block was pushed as a deposit, as a withdrawal
EmittedAsDeposit(k) ==
  /\ dpBlocks[k].emitted
  /\ TransactionOf(k).depositAmount # 0
  /\ TransactionOf(k).withdrawalAmount = 0

EmittedAsWithdrawal(k) ==
  /\ dpBlocks[k].emitted
  /\ TransactionOf(k).withdrawalAmount # 0
  /\ TransactionOf(k).depositAmount = 0

\* the single amount of the k-th block is 0 and its balance is within 0.01 of
\* the previous one
ZeroAmountWithinTolerance(k, previousBalance) ==
  /\ parseNoisyAmount(dpBlocks[k].block.amountTexts[1]) = 0
  /\ Abs(BlockBalance(k) - previousBalance) <= 1

C23_ExactTieIsWithdrawal ==
  \A k \in SingleAmountRows :
    \E previous \in {PreviousBalanceAt(k)} :
      previous.defined /\ BlockBalance(k) = previous.value /\ dpBlocks[k].emitted =>
        /\ TransactionOf(k).withdrawalAmount =
             parseNoisyAmount(dpBlocks[k].block.amountTexts[1])
        /\ TransactionOf(k).depositAmount = 0

\* what the code does in the exact tie: a deposit of the amount
C23_ExactTieIsDeposit ==
  \A k \in SingleAmountRows :
    \E previous \in {PreviousBalanceAt(k)} :
      previous.defined /\ BlockBalance(k) = previous.value /\ dpBlocks[k].emitted =>
        /\ TransactionOf(k).depositAmount =
             parseNoisyAmount(dpBlocks[k].block.amountTexts[1])
        /\ TransactionOf(k).withdrawalAmount = 0

(***************************************************************************)
(* Claims about the rows of the debit spreadsheet                          *)
(***************************************************************************)
\* a row whose first cell is a serial number
IsSerialNumbered(row) ==
  \E serialNo \in {parseAmount(row.serialNo)} : serialNo > 0 /\ serialNo % 100 = 0

\* a serial-numbered row whose remarks cell contains "legend" or "note"
RemarksNameLegend(row) ==
  /\ IsSerialNumbered(row)
  /\ \E remarksCell \in {ToLowerCase(row.remarks)} :
       Includes(remarksCell, "legend") \/ Includes(remarksCell, "note")

\* a serial-numbered row that the loop pushes when it reaches it
IsTransactionRow(row) ==
  /\ IsSerialNumbered(row)
  /\ Len(row.remarks) > 0
  /\ \/ parseAmount(row.withdrawal) > 0
     \/ parseAmount(row.deposit) > 0
     \/ parseAmount(row.balance) > 0

\* the rows before the first row whose remarks name the legend
RowsBeforeLegend ==
  {i \in 1..Len(psInput) : \A j \in 1..i : ~RemarksNameLegend(psInput[j])}

\* C24: when the loop over the rows has ended, the transactions pushed are the
\* transaction rows before the first serial-numbered row whose remarks cell
\* contains "legend" or "note", in their order: that row and the rows after it
\* give no transaction, and no other row stops the scan.
C24_ScanStopsAtLegendRemarks ==
  psParser = "debit" /\ psPos = Len(psInput) =>
    \E kept \in {{i \in RowsBeforeLegend : IsTransactionRow(psInput[i])}} :
      /\ Len(psTrace) = Cardinality(kept)
      /\ \A k \in 1..Len(psTrace) :
           \E i \in kept :
             /\ Cardinality({j \in kept : j < i}) = k - 1
             /\ psTrace[k].block = psInput[i]

(***************************************************************************)
(* Claims about the markers of the debit spreadsheet                       *)
(***************************************************************************)
\* the rows of the sheet that contain "s no"
HeaderRows ==
  {i \in 1..Len(mkData) : Includes(ToLowerCase(Join(mkData[i], " ")), "s no")}

\* accountNumber, accountHolder and the declared period
Declared(meta) == <<meta.accountNumber, meta.accountHolder, meta.dateFrom, meta.dateTo>>

\* C25: the scan of a sheet with one header row finds the accountNumber, the
\* accountHolder and the declared period that it finds in the same rows in any
\* other order, the rows of the account and of the period after the header row
\* included.
C25_MarkersInAnyOrder ==
  mkOutcome = "header" /\ Cardinality(HeaderRows) = 1 =>
    \A f \in Reorderings(Len(mkData)), now \in ClockPool :
      Declared(MarkersAfter([i \in 1..Len(mkData) |-> mkData[f[i]]], Len(mkData), now))
        = Declared(mkMeta)

\* the part of C25 that holds: the rows before the header row give the same
\* markers in any order
C25_MarkersBeforeHeaderInAnyOrder ==
  mkOutcome = "header" /\ Cardinality(HeaderRows) = 1 =>
    \A f \in Reorderings(Len(mkData)), now \in ClockPool :
      (\A i \in 1..Len(mkData) : (f[i] \in HeaderRows) = (i \in HeaderRows)) /\
      (\A i \in 1..Len(mkData) : (\A h \in HeaderRows : i < h) = (\A h \in HeaderRows : f[i] < h))
        => Declared(MarkersAfter([i \in 1..Len(mkData) |-> mkData[f[i]]], Len(mkData), now))
             = Declared(mkMeta)

(***************************************************************************)
(* Claims about extractMerchant                                            *)
(***************************************************************************)
\* the label a channel bucket falls back to
FallbackLabels ==
  {"Unknown UPI", "Unknown NEFT", "Unknown IMPS", "Bill Payment", "Card Payment",
   "ATM Withdrawal", "Cheque", "Unknown"}

\* C26: in every channel bucket the merchant returned is the first
\* merchant-like segment of the narration, normalized, when there is one, and
\* a fallback label of the bucket only when no segment is merchant-like.
C26_SharedHeuristicInEveryBucket ==
  emInfo.method \notin {"idle", "pending"} =>
    \E likelyMerchant \in {extractLikelyMerchant(emRemarks)} :
      IF Len(likelyMerchant) > 0 THEN emInfo.merchant = likelyMerchant
      ELSE emInfo.merchant \in FallbackLabels

\* the part of C26 that holds: the same in the buckets other than ATM and
\* cheque
C26_SharedHeuristicOutsideAtmAndCheque ==
  emInfo.method \notin {"idle", "pending", "ATM", "CHEQUE"} =>
    \E likelyMerchant \in {extractLikelyMerchant(emRemarks)} :
      IF Len(likelyMerchant) > 0 THEN emInfo.merchant = likelyMerchant
      ELSE emInfo.merchant \in FallbackLabels

(***************************************************************************)
(* Claims about batchUpdateCategoryIds                                     *)
(***************************************************************************)
\* C27: a chunk of a re-categorization run applied by batchUpdateCategoryIds
\* leaves the categoryId of every transaction that bears a
\* userCategoryOverride when the mutation runs as it was, also when
\* updateCategory set the override after the page rendered the transactions
\* the updates were computed from.
C27_BatchUpdateSkipsOverridden ==
  [][SendChunk =>
       \A id \in DOMAIN rcDb \cap DOMAIN rcDb' :
         Len(rcDb[id].userCategoryOverride) > 0 =>
           rcDb'[id].categoryId = rcDb[id].categoryId]_vars

(***************************************************************************)
(* Claims about the income fallback of processTransactions                 *)
(***************************************************************************)
\* no rule of the list and no hint of the map has categoryId "income"
NothingNamesIncome(rules, merchantHints) ==
  /\ \A i \in 1..Len(rules) : rules[i].categoryId # "income"
  /\ \A merchantKey \in DOMAIN merchantHints :
       merchantHints[merchantKey].categoryId # "income"

\* C28: when no rule and no hint has categoryId "income", every transaction
\* processTransactions files under "income" has depositAmount > 0, whatever
\* transactions of the statement came before it.
C28_IncomeOnlyForDeposits ==
  NothingNamesIncome(ptRules, ptHints) =>
    \A k \in 1..Len(ptOut) :
      ptOut[k].categoryId = "income" => ptOut[k].depositAmount > 0

\* the part of C28 that holds: the same for the transactions
\* categorizeTransaction was called for
C28_IncomeOnlyForDepositsWhenScored ==
  NothingNamesIncome(ptRules, ptHints) =>
    \A k \in 1..Len(ptOut) :
      ptOut[k].categoryId = "income" /\ ptTrace[k].scored => ptOut[k].depositAmount > 0

(***************************************************************************)
(* Claims about the category a hint names                                  *)
(***************************************************************************)
\* how many counted transactions of the merchant have the category
CountedIn(merchantKey, categoryId) ==
  LET byCategory == hbByMerchant[merchantKey].byCategory
  IN  IF \E i \in 1..Len(byCategory) : byCategory[i].categoryId = categoryId
        THEN byCategory[CHOOSE i \in 1..Len(byCategory) : byCategory[i].categoryId = categoryId].count
        ELSE 0

\* C29: the category of every hint buildMerchantHints produces is the strict
\* majority category of its merchant: more than half of the merchant's counted
\* transactions have it, so every other category has fewer and the order in
\* which the historical transactions are listed cannot change it.
C29_HintNamesStrictMajority ==
  hbPhase = "built" =>
    \A merchantKey \in DOMAIN hbHints :
      /\ hbHints[merchantKey].count = CountedIn(merchantKey, hbHints[merchantKey].categoryId)
      /\ 2 * hbHints[merchantKey].count > hbByMerchant[merchantKey].total
      /\ \A i \in 1..Len(hbByMerchant[merchantKey].byCategory) :
           LET entry == hbByMerchant[merchantKey].byCategory[i]
           IN  entry.categoryId # hbHints[merchantKey].categoryId =>
                 entry.count < hbHints[merchantKey].count

\* a merchant has a hint whose category is not the one its first counted
\* transaction had
C29_Witness ==
  /\ hbPhase = "built"
  /\ \E merchantKey \in DOMAIN hbHints :
       /\ Len(hbByMerchant[merchantKey].byCategory) > 1
       /\ hbByMerchant[merchantKey].byCategory[1].categoryId #
            hbHints[merchantKey].categoryId

(***************************************************************************)
(* Claims about importStatementWithCompatibility                           *)
(***************************************************************************)
RECURSIVE FieldsOfFirst(_, _)
FieldsOfFirst(transactions, n) ==
  IF n = 0 THEN 0
  ELSE Cardinality(transactions[n]) + FieldsOfFirst(transactions, n - 1)

\* how many fields the objects of a payload have
FieldCount(payload) ==
  Cardinality(payload.statement) + FieldsOfFirst(payload.transactions, Len(payload.transactions))

\* the value is a validation issue the client recognizes
IsRecognized(error) == Memoized(IssueMemo, error, getConvexValidationIssue(error)) # NoIssue

\* an object of the payload at the path of the issue has the field of the issue
HoldsRejectedField(payload, error) ==
  LET issue == Memoized(IssueMemo, error, getConvexValidationIssue(error))
  IN  IF Includes(issue.path, ".statement") THEN issue.field \in payload.statement
      ELSE /\ Includes(issue.path, ".transactions")
           /\ \E k \in 1..Len(payload.transactions) : issue.field \in payload.transactions[k]

\* the step is the mutation rejecting with this value
RejectedWith(error) ==
  /\ imPhase = "awaiting"
  /\ \E after \in {AfterRejection(imPayload, imAttempt, imCalls, error)} :
       <<imPayload', imAttempt', imCalls', imPhase', imThrown'>> =
         <<after.payload, after.attempt, after.calls, after.phase, after.thrown>>

\* what the claim says of a rejection: rethrown at once when the value is no
\* recognized issue or its field cannot be removed, else a retry with fewer
\* fields, else, after the eighth failure, the schema-mismatch error
RejectionHandled(error) ==
  IF ~IsRecognized(error) \/ ~HoldsRejectedField(imPayload, error)
    THEN imPhase' = "thrown" /\ imThrown' = error /\ imCalls' = imCalls
  ELSE IF imCalls < 8
    THEN /\ imPhase' = "awaiting"
         /\ imCalls' = imCalls + 1
         /\ FieldCount(imPayload') < FieldCount(imPayload)
  ELSE imPhase' = "thrown" /\ imThrown' = SchemaMismatch /\ imCalls' = imCalls

\* C30: importStatementWithCompatibility terminates whatever the backend
\* answers: the mutation is invoked at most 8 times, every retry sends a
\* payload with fewer fields than the attempt before, a rejection that is no
\* recognized validation issue or whose field cannot be removed is rethrown at
\* once, and the eighth failure throws the schema-mismatch error.
C30_BoundedRetriesWithShrinkingPayload ==
  /\ [](imCalls <= 8)
  /\ [][\A error \in ThrownPool : RejectedWith(error) => RejectionHandled(error)]_vars
  /\ <>(imPhase \in {"returned", "thrown"})

\* the part of C30 that holds: the same, for rejections that do not name a
\* property every object inherits
C30_BoundedRetriesForOwnFields ==
  /\ [](imCalls <= 8)
  /\ [][\A error \in ThrownPool :
          /\ RejectedWith(error)
          /\ Memoized(IssueMemo, error, getConvexValidationIssue(error)).field
               \notin ObjectPrototypeNames
          => RejectionHandled(error)]_vars
  /\ <>(imPhase \in {"returned", "thrown"})

\* eight calls were rejected, each for a field the payload had, and the
\* schema-mismatch error was thrown
C30_EightShrinkingAttempts ==
  /\ imThrown = SchemaMismatch
  /\ imCalls = 8
  /\ FieldCount(imPayload) + 8 <= Cardinality(StatementFields) +
                                   Len(imPayload.transactions) * Cardinality(TransactionFields)

============================================================================
